---- MODULE Spec2Model ----
(***************************************************************************)
(* checksum-utils: the verification classifier (cmd/check.go), the          *)
(* creation classifier, the traversal of the command-line arguments         *)
(* (cmd/check.go, cmd/root.go), the result/error accumulators, the signal   *)
(* handler and the progress animation (cmd/root.go).                        *)
(*                                                                          *)
(* Text (paths, sidecar content, file content) is a sequence of one-        *)
(* character strings.  The file system is a function from absolute, clean   *)
(* paths to nodes.  SHA-512 is abstracted by a DigestSize-byte mixing       *)
(* function; everything around it (hex encoding, trimming, case folding,    *)
(* extension test, path cleaning) is computed as the Go code computes it.   *)
(***************************************************************************)
EXTENDS Integers, Sequences, FiniteSets, TLC

VARIABLES
    fs,                            \* the file system: path -> node
    cwdGone,                       \* the working directory was removed: os.Getwd fails
    stdin,                         \* standard input: [tty, lines, err]
    stdoutTTY,                     \* standard output is a terminal (isStdoutTTY)
    spinner,                       \* the progress animation of the file being handled
    exitStatus,                    \* the status the process ends with
    sigpc,                         \* position of the goroutine of init() that waits for a signal
    writing,                       \* lines each goroutine has yet to write in its print call
    calls,                         \* direct calls of the classifiers, as the unit tests make them
    cmd,                           \* the command being run: "none", "check" or "create"
    args,                          \* its arguments
    pc,                            \* position of the run
    paths,                         \* the top-level paths still to process
    walk,                          \* filepath.Walk in progress: the nodes still to visit
    resultsCheckingChecksumFiles,
    errorsCheckingChecksumFiles,
    resultsCreatingChecksumFiles,
    errorsCreatingChecksumFiles,
    stdout                         \* what was printed

vars == <<fs, cwdGone, stdin, stdoutTTY, spinner, exitStatus, sigpc, writing, calls, cmd, args, pc, paths, walk,
          resultsCheckingChecksumFiles, errorsCheckingChecksumFiles,
          resultsCreatingChecksumFiles, errorsCreatingChecksumFiles, stdout>>

----------------------------------------------------------------------------
(* Bounds *)

\* bytes of a digest (sha512.Size is 64; the abstraction keeps DigestSize of them)
DigestSize == 2
\* longest file content drawn
MaxLen == 2
\* direct classifier calls per behaviour
MaxCalls == 3

----------------------------------------------------------------------------
(* Text *)

\* the characters of the model, in ASCII order
Alphabet ==
    << "\t", "\n", "\r", " ", "*", ".", "/",
       "0", "1", "2", "3", "4", "5", "6", "7", "8", "9", "?",
       "A", "B", "C", "D", "E", "F", "[",
       "a", "b", "c", "d", "e", "f", "h", "i", "r", "s", "w" >>

Ord(c) == CHOOSE i \in 1..Len(Alphabet) : Alphabet[i] = c

Front(s) == SubSeq(s, 1, Len(s) - 1)

Last(s) == s[Len(s)]

\* strings.HasSuffix
HasSuffix(s, suffix) ==
    /\ Len(s) >= Len(suffix)
    /\ SubSeq(s, Len(s) - Len(suffix) + 1, Len(s)) = suffix

\* unicode.IsSpace on the characters of the model
IsSpace(c) == c \in {"\t", "\n", "\r", " "}

RECURSIVE TrimLeft(_)
TrimLeft(s) ==
    IF s # <<>> /\ IsSpace(Head(s)) THEN TrimLeft(Tail(s)) ELSE s

RECURSIVE TrimRight(_)
TrimRight(s) ==
    IF s # <<>> /\ IsSpace(Last(s)) THEN TrimRight(Front(s)) ELSE s

\* strings.TrimSpace
TrimSpace(s) == TrimRight(TrimLeft(s))

\* simple case folding of one character
Fold(c) ==
    CASE c = "A" -> "a" [] c = "B" -> "b" [] c = "C" -> "c"
      [] c = "D" -> "d" [] c = "E" -> "e" [] c = "F" -> "f"
      [] OTHER -> c

\* strings.ToUpper on hex text
Upper(c) ==
    CASE c = "a" -> "A" [] c = "b" -> "B" [] c = "c" -> "C"
      [] c = "d" -> "D" [] c = "e" -> "E" [] c = "f" -> "F"
      [] OTHER -> c

ToUpper(s) == [i \in 1..Len(s) |-> Upper(s[i])]

\* strings.EqualFold
EqualFold(s, t) ==
    /\ Len(s) = Len(t)
    /\ \A i \in 1..Len(s) : Fold(s[i]) = Fold(t[i])

\* encoding/hex: const hextable = "0123456789abcdef"
hextable ==
    << "0", "1", "2", "3", "4", "5", "6", "7", "8", "9",
       "a", "b", "c", "d", "e", "f" >>

\* hex.EncodeToString: two characters per byte, high nibble first
RECURSIVE EncodeToString(_)
EncodeToString(bytes) ==
    IF bytes = <<>> THEN <<>>
    ELSE << hextable[(Head(bytes) \div 16) + 1], hextable[(Head(bytes) % 16) + 1] >>
         \o EncodeToString(Tail(bytes))

\* one byte of the digest: the content folded through a mixing step
RECURSIVE Mix(_, _)
Mix(content, j) ==
    IF content = <<>> THEN (97 * j) % 256
    ELSE (Mix(Front(content), j) * 31 + Ord(Last(content)) * 7 + j) % 256

\* sha512.New / io.Copy / hash.Sum(nil): the digest of the full content
Sum512(content) == [j \in 1..DigestSize |-> Mix(content, j)]

----------------------------------------------------------------------------
(* Paths *)

Sep == "/"

\* the sidecar suffix
SHA512EXT == << ".", "s", "h", "a", "5", "1", "2" >>

\* filepath.Ext: the suffix from the last dot of the last element
RECURSIVE ExtFrom(_, _)
ExtFrom(path, i) ==
    IF i < 1 \/ path[i] = Sep THEN <<>>
    ELSE IF path[i] = "." THEN SubSeq(path, i, Len(path))
    ELSE ExtFrom(path, i - 1)

Ext(path) == ExtFrom(path, Len(path))

\* filepath.IsAbs
IsAbs(path) == path # <<>> /\ path[1] = Sep

\* the elements of a path, empty ones included
RECURSIVE Split(_)
Split(path) ==
    IF \A i \in 1..Len(path) : path[i] # Sep THEN << path >>
    ELSE LET k == CHOOSE i \in 1..Len(path) :
                     /\ path[i] = Sep
                     /\ \A j \in 1..(i - 1) : path[j] # Sep
         IN  << SubSeq(path, 1, k - 1) >> \o Split(SubSeq(path, k + 1, Len(path)))

\* the elements of a path after "." and ".." are resolved lexically
RECURSIVE CleanElems(_, _, _)
CleanElems(elems, out, rooted) ==
    IF elems = <<>> THEN out
    ELSE LET e == Head(elems) IN
         IF e = <<>> \/ e = << "." >> THEN CleanElems(Tail(elems), out, rooted)
         ELSE IF e = << ".", "." >> THEN
              IF out # <<>> /\ Last(out) # << ".", "." >>
                  THEN CleanElems(Tail(elems), Front(out), rooted)
              ELSE IF rooted THEN CleanElems(Tail(elems), out, rooted)
              ELSE CleanElems(Tail(elems), Append(out, e), rooted)
         ELSE CleanElems(Tail(elems), Append(out, e), rooted)

RECURSIVE JoinElems(_)
JoinElems(elems) ==
    IF elems = <<>> THEN <<>>
    ELSE IF Len(elems) = 1 THEN Head(elems)
    ELSE Head(elems) \o << Sep >> \o JoinElems(Tail(elems))

\* the end of filepath.Clean: a rooted path keeps its separator, a relative
\* path without elements is "."
CleanPath(elems, rooted) ==
    IF rooted THEN << Sep >> \o JoinElems(elems)
    ELSE IF elems = <<>> THEN << "." >> ELSE JoinElems(elems)

\* filepath.Clean
Clean(path) == CleanPath(CleanElems(Split(path), <<>>, IsAbs(path)), IsAbs(path))

\* filepath.Join of two elements
Join(a, b) == Clean(a \o << Sep >> \o b)

\* filepath.Dir of a clean absolute path
Dir(path) == Clean(path \o << Sep, ".", "." >>)

\* filepath.Base of a clean absolute path
Base(path) == Last(Split(path))

----------------------------------------------------------------------------
(* Errors *)

\* a nil error
Nil == [op |-> "", path |-> <<>>, kind |-> "nil"]

\* an *os.PathError (or any error) of the given kind
Err(op, path, kind) == [op |-> op, path |-> path, kind |-> kind]

\* os.IsPermission
IsPermission(err) == err.kind = "EACCES"

\* errors.Is(err, os.ErrNotExist)
IsNotExist(err) == err.kind = "ENOENT"

----------------------------------------------------------------------------
(* The file system *)

\* the working directory of the process
Cwd == << "/", "w" >>

NoNode == [kind |-> "none", mode |-> "ok", content |-> <<>>]

FileNode(mode, content) == [kind |-> "file", mode |-> mode, content |-> content]

DirNode(mode) == [kind |-> "dir", mode |-> mode, content |-> <<>>]

\* os.Getwd
Getwd == IF cwdGone THEN [path |-> <<>>, err |-> Err("getwd", <<>>, "ENOENT")]
         ELSE [path |-> Cwd, err |-> Nil]

\* the node a path names; a relative path is resolved from the working
\* directory, which still resolves when it was removed (an empty directory)
Resolve(path) == Clean(IF IsAbs(path) THEN path ELSE Cwd \o << Sep >> \o path)

\* the node at a resolved path
Lookup(fsys, resolved, relative) ==
    IF resolved \in DOMAIN fsys THEN fsys[resolved]
    ELSE IF cwdGone /\ relative /\ resolved = Cwd THEN DirNode("ok")
    ELSE NoNode

NodeAt(fsys, path) == Lookup(fsys, Resolve(path), ~IsAbs(path))

\* what stat(2) and lstat(2) give for a node (the model has no symbolic
\* links); a node of mode "staterr" is one whose inode cannot be read
StatNode(op, n, path) ==
    IF n.kind = "none" THEN [isDir |-> FALSE, err |-> Err(op, path, "ENOENT")]
    ELSE IF n.mode = "staterr" THEN [isDir |-> FALSE, err |-> Err(op, path, "EIO")]
    ELSE [isDir |-> n.kind = "dir", err |-> Nil]

\* os.Stat
Stat(fsys, path) == StatNode("stat", NodeAt(fsys, path), path)

\* os.Lstat, as filepath.Walk calls it: its error is a PathError of Op "lstat"
Lstat(fsys, path) == StatNode("lstat", NodeAt(fsys, path), path)

\* os.Open
Open(fsys, path) ==
    LET n == NodeAt(fsys, path) IN
    IF n.kind = "none" THEN Err("open", path, "ENOENT")
    ELSE IF n.mode = "staterr" THEN Err("open", path, "EIO")
    ELSE IF n.mode = "locked" THEN Err("open", path, "EACCES")
    ELSE Nil

\* reading an open file to the end (io.Copy, io.ReadAll)
ReadAll(fsys, path) ==
    LET n == NodeAt(fsys, path) IN
    IF n.kind = "dir" THEN [data |-> <<>>, err |-> Err("read", path, "EISDIR")]
    ELSE IF n.mode = "ioerr" THEN [data |-> <<>>, err |-> Err("read", path, "EIO")]
    ELSE [data |-> n.content, err |-> Nil]

\* os.ReadFile
ReadFile(fsys, path) ==
    IF Open(fsys, path) # Nil THEN [data |-> <<>>, err |-> Open(fsys, path)]
    ELSE ReadAll(fsys, path)

\* os.WriteFile of a new file: the directory must accept the entry
WriteFile(fsys, path, data) ==
    LET d == NodeAt(fsys, Dir(path))
        n == NodeAt(fsys, path) IN
    IF d.kind # "dir" THEN [fs |-> fsys, err |-> Err("open", path, "ENOENT")]
    ELSE IF n.kind = "none" /\ d.mode = "readonly"
        THEN [fs |-> fsys, err |-> Err("open", path, "EACCES")]
    ELSE IF n.kind = "dir" THEN [fs |-> fsys, err |-> Err("open", path, "EISDIR")]
    ELSE IF n.kind = "file" /\ n.mode # "ok"
        THEN [fs |-> fsys, err |-> Err("open", path, IF n.mode = "locked" THEN "EACCES" ELSE "EIO")]
    ELSE [fs  |-> [q \in DOMAIN fsys \cup {path} |->
                      IF q = path THEN FileNode("ok", data) ELSE fsys[q]],
          err |-> Nil]

\* os.Chmod(path, 0o000) on a regular file
Chmod000(fsys, path) == [fsys EXCEPT ![path] = FileNode("locked", fsys[path].content)]

----------------------------------------------------------------------------
(* The verification classifier *)

VerificationResult(path, status, error) ==
    [Path |-> path, Status |-> status, Error |-> error]

\* a variant that prints the digest in upper case and compares exactly
compareChecksum_UpperExact(fsys, fileAbsolutePath) ==
    LET copy == ReadAll(fsys, fileAbsolutePath) IN
    IF copy.err # Nil
        THEN VerificationResult(fileAbsolutePath, "CheckingFailed", copy.err)
    ELSE
    LET hexFileChecksum == ToUpper(EncodeToString(Sum512(copy.data)))
        read == ReadFile(fsys, fileAbsolutePath \o SHA512EXT) IN
    IF read.err # Nil
        THEN VerificationResult(fileAbsolutePath, "CheckingFailed", read.err)
    ELSE IF hexFileChecksum = TrimSpace(read.data)
        THEN VerificationResult(fileAbsolutePath, "Match", Nil)
    ELSE VerificationResult(fileAbsolutePath, "NotMatch", Nil)

\* a variant that does not trim the sidecar text
compareChecksum_NoTrim(fsys, fileAbsolutePath) ==
    LET copy == ReadAll(fsys, fileAbsolutePath) IN
    IF copy.err # Nil
        THEN VerificationResult(fileAbsolutePath, "CheckingFailed", copy.err)
    ELSE
    LET hexFileChecksum == EncodeToString(Sum512(copy.data))
        read == ReadFile(fsys, fileAbsolutePath \o SHA512EXT) IN
    IF read.err # Nil
        THEN VerificationResult(fileAbsolutePath, "CheckingFailed", read.err)
    ELSE IF EqualFold(hexFileChecksum, read.data)
        THEN VerificationResult(fileAbsolutePath, "Match", Nil)
    ELSE VerificationResult(fileAbsolutePath, "NotMatch", Nil)

\* lines 192-217: hash the content, read the sidecar, compare
compareChecksum(fsys, fileAbsolutePath) ==
    LET copy == ReadAll(fsys, fileAbsolutePath) IN
    IF copy.err # Nil
        THEN VerificationResult(fileAbsolutePath, "CheckingFailed", copy.err)
    ELSE
    LET hexFileChecksum == EncodeToString(Sum512(copy.data))
        read == ReadFile(fsys, fileAbsolutePath \o SHA512EXT) IN
    IF read.err # Nil
        THEN VerificationResult(fileAbsolutePath, "CheckingFailed", read.err)
    ELSE IF EqualFold(hexFileChecksum, TrimSpace(read.data))
        THEN VerificationResult(fileAbsolutePath, "Match", Nil)
    ELSE VerificationResult(fileAbsolutePath, "NotMatch", Nil)

\* a variant that does not tell a missing sidecar from a failed stat
checkChecksumFile_NoNotFound(fsys, fileAbsolutePath) ==
    LET open == Open(fsys, fileAbsolutePath) IN
    IF open # Nil THEN
        IF IsPermission(open)
            THEN VerificationResult(fileAbsolutePath, "Locked", open)
        ELSE VerificationResult(fileAbsolutePath, "CheckingFailed", open)
    ELSE
    LET stat == Stat(fsys, fileAbsolutePath \o SHA512EXT) IN
    IF stat.err # Nil
        THEN VerificationResult(fileAbsolutePath, "CheckingFailed", stat.err)
    ELSE compareChecksum(fsys, fileAbsolutePath)

\* a variant that looks at the sidecar before it opens the data file
checkChecksumFile_SidecarFirst(fsys, fileAbsolutePath) ==
    LET open == Open(fsys, fileAbsolutePath)
        stat == Stat(fsys, fileAbsolutePath \o SHA512EXT) IN
    IF stat.err # Nil THEN
        IF IsNotExist(stat.err)
            THEN VerificationResult(fileAbsolutePath, "NotFound", Nil)
        ELSE VerificationResult(fileAbsolutePath, "CheckingFailed", stat.err)
    ELSE IF open # Nil THEN
        IF IsPermission(open)
            THEN VerificationResult(fileAbsolutePath, "Locked", open)
        ELSE VerificationResult(fileAbsolutePath, "CheckingFailed", open)
    ELSE compareChecksum(fsys, fileAbsolutePath)

\* a variant that hands the stat error on with NotFound
checkChecksumFile_NotFoundWithError(fsys, fileAbsolutePath) ==
    LET open == Open(fsys, fileAbsolutePath) IN
    IF open # Nil THEN
        IF IsPermission(open)
            THEN VerificationResult(fileAbsolutePath, "Locked", open)
        ELSE VerificationResult(fileAbsolutePath, "CheckingFailed", open)
    ELSE
    LET stat == Stat(fsys, fileAbsolutePath \o SHA512EXT) IN
    IF stat.err # Nil THEN
        IF IsNotExist(stat.err)
            THEN VerificationResult(fileAbsolutePath, "NotFound", stat.err)
        ELSE VerificationResult(fileAbsolutePath, "CheckingFailed", stat.err)
    ELSE compareChecksum(fsys, fileAbsolutePath)

checkChecksumFile(fsys, fileAbsolutePath) ==
    LET open == Open(fsys, fileAbsolutePath) IN
    IF open # Nil THEN
        IF IsPermission(open)
            THEN VerificationResult(fileAbsolutePath, "Locked", open)
        ELSE VerificationResult(fileAbsolutePath, "CheckingFailed", open)
    ELSE
    LET stat == Stat(fsys, fileAbsolutePath \o SHA512EXT) IN
    IF stat.err # Nil THEN
        IF IsNotExist(stat.err)
            THEN VerificationResult(fileAbsolutePath, "NotFound", Nil)
        ELSE VerificationResult(fileAbsolutePath, "CheckingFailed", stat.err)
    ELSE compareChecksum(fsys, fileAbsolutePath)

----------------------------------------------------------------------------
(* The creation classifier *)

CreationResult(path, status, error) ==
    [Path |-> path, Status |-> status, Error |-> error]

\* a variant that writes the sidecar whether or not there is one
createChecksumFile_Overwrite(fsys, fileAbsolutePath) ==
    LET open == Open(fsys, fileAbsolutePath)
        copy == ReadAll(fsys, fileAbsolutePath)
        write == WriteFile(fsys, fileAbsolutePath \o SHA512EXT,
                           EncodeToString(Sum512(copy.data))) IN
    IF open # Nil THEN
        IF IsPermission(open)
            THEN [result |-> CreationResult(fileAbsolutePath, "LockedCreation", open), fs |-> fsys]
        ELSE [result |-> CreationResult(fileAbsolutePath, "Failed", open), fs |-> fsys]
    ELSE IF copy.err # Nil
        THEN [result |-> CreationResult(fileAbsolutePath, "Failed", copy.err), fs |-> fsys]
    ELSE IF write.err # Nil
        THEN [result |-> CreationResult(fileAbsolutePath, "Failed", write.err), fs |-> fsys]
    ELSE [result |-> CreationResult(fileAbsolutePath, "Created", Nil), fs |-> write.fs]

\* a variant that ends the sidecar with a line break
createChecksumFile_Newline(fsys, fileAbsolutePath) ==
    LET stat == Stat(fsys, fileAbsolutePath \o SHA512EXT)
        open == Open(fsys, fileAbsolutePath)
        copy == ReadAll(fsys, fileAbsolutePath)
        write == WriteFile(fsys, fileAbsolutePath \o SHA512EXT,
                           EncodeToString(Sum512(copy.data)) \o << "\n" >>) IN
    IF stat.err = Nil
        THEN [result |-> CreationResult(fileAbsolutePath, "Existing", Nil), fs |-> fsys]
    ELSE IF ~IsNotExist(stat.err)
        THEN [result |-> CreationResult(fileAbsolutePath, "Failed", stat.err), fs |-> fsys]
    ELSE IF open # Nil THEN
        IF IsPermission(open)
            THEN [result |-> CreationResult(fileAbsolutePath, "LockedCreation", open), fs |-> fsys]
        ELSE [result |-> CreationResult(fileAbsolutePath, "Failed", open), fs |-> fsys]
    ELSE IF copy.err # Nil
        THEN [result |-> CreationResult(fileAbsolutePath, "Failed", copy.err), fs |-> fsys]
    ELSE IF write.err # Nil
        THEN [result |-> CreationResult(fileAbsolutePath, "Failed", write.err), fs |-> fsys]
    ELSE [result |-> CreationResult(fileAbsolutePath, "Created", Nil), fs |-> write.fs]

\* the outcome of create and the file system it leaves
createChecksumFile(fsys, fileAbsolutePath) ==
    LET stat == Stat(fsys, fileAbsolutePath \o SHA512EXT)
        open == Open(fsys, fileAbsolutePath)
        copy == ReadAll(fsys, fileAbsolutePath)
        write == WriteFile(fsys, fileAbsolutePath \o SHA512EXT,
                           EncodeToString(Sum512(copy.data))) IN
    IF stat.err = Nil
        THEN [result |-> CreationResult(fileAbsolutePath, "Existing", Nil), fs |-> fsys]
    ELSE IF ~IsNotExist(stat.err)
        THEN [result |-> CreationResult(fileAbsolutePath, "Failed", stat.err), fs |-> fsys]
    ELSE IF open # Nil THEN
        IF IsPermission(open)
            THEN [result |-> CreationResult(fileAbsolutePath, "LockedCreation", open), fs |-> fsys]
        ELSE [result |-> CreationResult(fileAbsolutePath, "Failed", open), fs |-> fsys]
    ELSE IF copy.err # Nil
        THEN [result |-> CreationResult(fileAbsolutePath, "Failed", copy.err), fs |-> fsys]
    ELSE IF write.err # Nil
        THEN [result |-> CreationResult(fileAbsolutePath, "Failed", write.err), fs |-> fsys]
    ELSE [result |-> CreationResult(fileAbsolutePath, "Created", Nil), fs |-> write.fs]

----------------------------------------------------------------------------
(* Directory listing, filepath.Abs, filepath.Glob *)

\* byte-wise order of two names (sort.Strings)
RECURSIVE LexLess(_, _)
LexLess(s, t) ==
    IF t = <<>> THEN FALSE
    ELSE IF s = <<>> THEN TRUE
    ELSE IF Head(s) # Head(t) THEN Ord(Head(s)) < Ord(Head(t))
    ELSE LexLess(Tail(s), Tail(t))

\* a set of names as a sorted sequence
RECURSIVE Sorted(_)
Sorted(names) ==
    IF names = {} THEN <<>>
    ELSE LET least == CHOOSE n \in names : \A m \in names \ {n} : LexLess(n, m)
         IN  << least >> \o Sorted(names \ {least})

\* the entries of a directory
Children(fsys, dir) == {q \in DOMAIN fsys : q # dir /\ Dir(q) = dir}

\* readDirNames of filepath.Walk: the names of a directory, sorted
readDirNames(fsys, dir) ==
    LET n == NodeAt(fsys, dir) IN
    IF n.mode = "locked" THEN [names |-> <<>>, err |-> Err("open", dir, "EACCES")]
    ELSE [names |-> Sorted({Base(q) : q \in Children(fsys, dir)}), err |-> Nil]

\* filepath.Abs
Abs(path) ==
    IF IsAbs(path) THEN [path |-> Clean(path), err |-> Nil]
    ELSE IF Getwd.err # Nil THEN [path |-> <<>>, err |-> Getwd.err]
    ELSE [path |-> Join(Getwd.path, path), err |-> Nil]

\* hasGlobMeta: strings.ContainsAny(path, "*?[")
hasGlobMeta(path) == \E i \in 1..Len(path) : path[i] \in {"*", "?", "["}

\* filepath.Match of a pattern made of literals, "*" and "?" against a name
RECURSIVE Match(_, _)
Match(pattern, name) ==
    IF pattern = <<>> THEN name = <<>>
    ELSE IF Head(pattern) = "*" THEN
        \/ Match(Tail(pattern), name)
        \/ name # <<>> /\ Head(name) # Sep /\ Match(pattern, Tail(name))
    ELSE IF name = <<>> THEN FALSE
    ELSE IF Head(pattern) = "?" THEN Head(name) # Sep /\ Match(Tail(pattern), Tail(name))
    ELSE Head(pattern) = Head(name) /\ Match(Tail(pattern), Tail(name))

\* filepath.Glob of a pattern whose meta characters are in its last element;
\* the only bracket patterns of the model are unclosed ones: ErrBadPattern
Glob(fsys, pattern) ==
    IF \E i \in 1..Len(pattern) : pattern[i] = "["
        THEN [matches |-> <<>>, err |-> Err("glob", pattern, "ErrBadPattern")]
    ELSE LET dir == Dir(pattern) IN
         IF Stat(fsys, dir).err # Nil \/ ~Stat(fsys, dir).isDir \/ readDirNames(fsys, dir).err # Nil
             THEN [matches |-> <<>>, err |-> Nil]
         ELSE [matches |-> Sorted({q \in Children(fsys, dir) : Match(Base(pattern), Base(q))}),
               err |-> Nil]

----------------------------------------------------------------------------
(* Output *)

Line(kind, path, status, list) ==
    [line |-> kind, path |-> path, status |-> status, list |-> list]

\* printHeader
printHeader(out) == Append(out, Line("header", <<>>, "", <<>>))

\* printResultsCheckingChecksumFiles: every part of it is printed only for a
\* non-empty bucket, so nothing is printed for no results
printResultsCheckingChecksumFiles(results, out) ==
    IF Len(results) > 0 THEN Append(out, Line("results", <<>>, "", results)) ELSE out

\* printErrorsCheckingChecksumFiles
printErrorsCheckingChecksumFiles(errs, out) ==
    IF Len(errs) > 0 THEN Append(out, Line("errors", <<>>, "", errs)) ELSE out

\* printResultsCreatingChecksumFiles
printResultsCreatingChecksumFiles(results, out) ==
    IF Len(results) > 0 THEN Append(out, Line("results", <<>>, "", results)) ELSE out

\* printErrorsCreatingChecksumFiles
printErrorsCreatingChecksumFiles(errs, out) ==
    IF Len(errs) > 0 THEN Append(out, Line("errors", <<>>, "", errs)) ELSE out

\* fmt.Println("Error: ", err)
printError(err, out) == Append(out, Line("error", err.path, err.kind, <<>>))

----------------------------------------------------------------------------
(* The per-file handlers *)

\* errors.New(fileAbsolutePath + " is a checksum file.")
isChecksumFileError(fileAbsolutePath) == Err("", fileAbsolutePath, "is a checksum file.")

\* a variant that returns the error of the outcome to its caller
handleChecksumFileVerification_ReturnsError(fsys, filePath, results, out) ==
    LET abs == Abs(filePath) IN
    IF abs.err # Nil THEN [err |-> abs.err, results |-> results, out |-> out, fs |-> fsys]
    ELSE IF Ext(abs.path) = SHA512EXT
        THEN [err |-> Nil, results |-> results, out |-> out, fs |-> fsys]
    ELSE LET result == checkChecksumFile(fsys, abs.path) IN
         [err     |-> result.Error,
          results |-> Append(results, result),
          out     |-> Append(out, Line("status", abs.path, result.Status, <<>>)),
          fs      |-> fsys]

\* a variant that does not test the extension
handleChecksumFileVerification_NoSkip(fsys, filePath, results, out) ==
    LET abs == Abs(filePath) IN
    IF abs.err # Nil THEN [err |-> abs.err, results |-> results, out |-> out, fs |-> fsys]
    ELSE LET result == checkChecksumFile(fsys, abs.path) IN
         [err     |-> Nil,
          results |-> Append(results, result),
          out     |-> Append(out, Line("status", abs.path, result.Status, <<>>)),
          fs      |-> fsys]

\* a variant that keeps the last outcome only
handleChecksumFileVerification_KeepsLast(fsys, filePath, results, out) ==
    LET abs == Abs(filePath) IN
    IF abs.err # Nil THEN [err |-> abs.err, results |-> results, out |-> out, fs |-> fsys]
    ELSE IF Ext(abs.path) = SHA512EXT
        THEN [err |-> Nil, results |-> results, out |-> out, fs |-> fsys]
    ELSE LET result == checkChecksumFile(fsys, abs.path) IN
         [err     |-> Nil,
          results |-> << result >>,
          out     |-> Append(out, Line("status", abs.path, result.Status, <<>>)),
          fs      |-> fsys]

\* what the handler returns and leaves: its error, the results, the output
handleChecksumFileVerification(fsys, filePath, results, out) ==
    LET abs == Abs(filePath) IN
    IF abs.err # Nil THEN [err |-> abs.err, results |-> results, out |-> out, fs |-> fsys]
    ELSE IF Ext(abs.path) = SHA512EXT
        THEN [err |-> Nil, results |-> results, out |-> out, fs |-> fsys]
    ELSE LET result == checkChecksumFile(fsys, abs.path) IN
         [err     |-> Nil,
          results |-> Append(results, result),
          out     |-> Append(out, Line("status", abs.path, result.Status, <<>>)),
          fs      |-> fsys]

\* the handler of the create command
handleChecksumFileCreation(fsys, filePath, results, out) ==
    LET abs == Abs(filePath) IN
    IF abs.err # Nil THEN [err |-> abs.err, results |-> results, out |-> out, fs |-> fsys]
    ELSE IF Ext(abs.path) = SHA512EXT
        THEN [err |-> Nil, results |-> results, out |-> out, fs |-> fsys]
    ELSE LET r == createChecksumFile(fsys, abs.path) IN
         [err     |-> Nil,
          results |-> Append(results, r.result),
          out     |-> Append(out, Line("status", abs.path, r.result.Status, <<>>)),
          fs      |-> r.fs]

----------------------------------------------------------------------------
(* filepath.Walk, one node at a time *)

\* what filepath.Walk hands to its function for the next node: the lstat
\* error of the node, or the read error of a directory, or nothing
WalkNode(fsys, path) ==
    LET st == Lstat(fsys, path) IN
    IF st.err # Nil THEN [isDir |-> FALSE, err |-> st.err, names |-> <<>>]
    ELSE IF st.isDir THEN
        [isDir |-> TRUE, err |-> readDirNames(fsys, path).err,
         names |-> readDirNames(fsys, path).names]
    ELSE [isDir |-> FALSE, err |-> Nil, names |-> <<>>]

\* the nodes left to visit after a directory was entered
Descend(path, names, rest) == [i \in 1..Len(names) |-> Join(path, names[i])] \o rest

\* the nodes left to visit after a node: the entries of a directory come next
WalkRest(node, path, rest) ==
    IF node.isDir THEN Descend(path, node.names, rest) ELSE rest

\* the function handed to filepath.Walk, applied to the next node with the
\* given handler outcome: the error it returns and what it leaves
WalkFunc(node, path, handled, errs, results, out, fsys) ==
    IF node.err # Nil THEN
        [err |-> node.err, errs |-> Append(errs, node.err), results |-> results,
         out |-> printError(node.err, out), fs |-> fsys]
    ELSE IF node.isDir THEN
        [err |-> Nil, errs |-> errs, results |-> results, out |-> out, fs |-> fsys]
    ELSE [err |-> handled.err, errs |-> errs, results |-> handled.results,
          out |-> handled.out, fs |-> handled.fs]

----------------------------------------------------------------------------
(* Gathering the paths of a run *)

isStdinTTY == stdin.tty

\* the loop of readPathsFromStdin over the scanned lines
RECURSIVE scanLines(_)
scanLines(lines) ==
    IF lines = <<>> THEN <<>>
    ELSE LET line == TrimSpace(Head(lines)) IN
         IF line = <<>> THEN scanLines(Tail(lines))
         ELSE IF HasSuffix(line, SHA512EXT) THEN scanLines(Tail(lines))
         ELSE << line >> \o scanLines(Tail(lines))

\* the lines are those the scanner delivers; stdin.err is what scanner.Err()
\* gives after them (a failed read, a line that is too long), or Nil
readPathsFromStdin ==
    IF isStdinTTY THEN [paths |-> <<>>, err |-> Nil]
    ELSE [paths |-> scanLines(stdin.lines), err |-> stdin.err]

RECURSIVE expandArgs(_, _)
expandArgs(fsys, arguments) ==
    IF arguments = <<>> THEN [expanded |-> <<>>, errs |-> <<>>, hadGlob |-> FALSE]
    ELSE LET arg  == Head(arguments)
             rest == expandArgs(fsys, Tail(arguments))
             glob == Glob(fsys, arg) IN
         IF hasGlobMeta(arg) THEN
             IF glob.err # Nil THEN
                 [expanded |-> rest.expanded, errs |-> << glob.err >> \o rest.errs, hadGlob |-> TRUE]
             ELSE IF Len(glob.matches) = 0 THEN
                 [expanded |-> rest.expanded,
                  errs |-> << Err("glob", arg, "no matches") >> \o rest.errs, hadGlob |-> TRUE]
             ELSE [expanded |-> glob.matches \o rest.expanded, errs |-> rest.errs, hadGlob |-> TRUE]
         ELSE [expanded |-> << arg >> \o rest.expanded, errs |-> rest.errs, hadGlob |-> rest.hadGlob]

gatherPaths(fsys, arguments) ==
    LET e == expandArgs(fsys, arguments)
        read == IF Len(arguments) = 0 \/ ~isStdinTTY THEN readPathsFromStdin
                ELSE [paths |-> <<>>, err |-> Nil] IN
    [paths   |-> e.expanded \o read.paths,
     errs    |-> IF read.err # Nil THEN Append(e.errs, read.err) ELSE e.errs,
     hadGlob |-> e.hadGlob \/ Len(read.paths) > 0]

----------------------------------------------------------------------------
(* The check command: checkCmd.Run *)

CheckStart ==
    /\ pc = "start"
    /\ cmd = "check"
    /\ stdout' = printHeader(stdout)
    /\ paths' = args
    /\ pc' = "args"
    /\ UNCHANGED <<fs, cwdGone, stdin, stdoutTTY, spinner, exitStatus, sigpc, writing, calls, cmd, args, walk,
                   resultsCheckingChecksumFiles, errorsCheckingChecksumFiles,
                   resultsCreatingChecksumFiles, errorsCreatingChecksumFiles>>

\* a variant that keeps the results of the arguments before
NewResultSet_Kept == resultsCheckingChecksumFiles

\* resultsCheckingChecksumFiles = []ChecksumFileVerificationResult{}
NewResultSet == <<>>

\* one round of the loop over the arguments, up to the start of the walk of a
\* directory or to the call of the handler for a file
CheckArg ==
    /\ pc = "args"
    /\ cmd = "check"
    /\ paths # <<>>
    /\ LET path == Head(paths)
           argFileInfo == Stat(fs, path)
           abs == Abs(path)
           processing == Append(stdout, Line("processing", path, "", <<>>))
       IN
       IF argFileInfo.err # Nil THEN
           /\ errorsCheckingChecksumFiles' = Append(errorsCheckingChecksumFiles, argFileInfo.err)
           /\ paths' = Tail(paths)
           /\ UNCHANGED <<resultsCheckingChecksumFiles, stdout, walk, pc>>
       ELSE IF argFileInfo.isDir THEN
           IF abs.err # Nil THEN
               \* return: the run is over, nothing more is printed
               /\ errorsCheckingChecksumFiles' = Append(errorsCheckingChecksumFiles, abs.err)
               /\ resultsCheckingChecksumFiles' = NewResultSet
               /\ stdout' = processing
               /\ pc' = "done"
               /\ UNCHANGED <<paths, walk>>
           ELSE
               /\ resultsCheckingChecksumFiles' = NewResultSet
               /\ stdout' = processing
               /\ walk' = << abs.path >>
               /\ pc' = "walk"
               /\ UNCHANGED <<paths, errorsCheckingChecksumFiles>>
       ELSE IF abs.err # Nil THEN
           /\ errorsCheckingChecksumFiles' = Append(errorsCheckingChecksumFiles, abs.err)
           /\ resultsCheckingChecksumFiles' = NewResultSet
           /\ stdout' = processing
           /\ paths' = Tail(paths)
           /\ UNCHANGED <<walk, pc>>
       ELSE IF Ext(abs.path) = SHA512EXT THEN
           /\ errorsCheckingChecksumFiles' =
                  Append(errorsCheckingChecksumFiles, isChecksumFileError(abs.path))
           /\ resultsCheckingChecksumFiles' = NewResultSet
           /\ stdout' = processing
           /\ paths' = Tail(paths)
           /\ UNCHANGED <<walk, pc>>
       ELSE
           \* the handler is called next, with the path as it was given
           /\ resultsCheckingChecksumFiles' = NewResultSet
           /\ stdout' = processing
           /\ pc' = "file"
           /\ UNCHANGED <<paths, errorsCheckingChecksumFiles, walk>>
    /\ UNCHANGED <<fs, cwdGone, stdin, stdoutTTY, spinner, exitStatus, sigpc, writing, calls, cmd, args,
                   resultsCreatingChecksumFiles, errorsCreatingChecksumFiles>>

\* what follows the handler called for a file argument: what it returns is
\* not looked at, the results of the round are printed
CheckHandled(handled) ==
    /\ resultsCheckingChecksumFiles' = handled.results
    /\ stdout' = printResultsCheckingChecksumFiles(handled.results, handled.out)
    /\ paths' = Tail(paths)
    /\ pc' = "args"
    /\ UNCHANGED <<errorsCheckingChecksumFiles, walk>>

\* the rest of the round of a file argument:
\* handleChecksumFileVerification(path, &resultsCheckingChecksumFiles)
CheckFile ==
    /\ pc = "file"
    /\ cmd = "check"
    /\ CheckHandled(handleChecksumFileVerification(fs, Head(paths),
                         resultsCheckingChecksumFiles, stdout))
    /\ UNCHANGED <<fs, cwdGone, stdin, stdoutTTY, spinner, exitStatus, sigpc, writing, calls, cmd, args,
                   resultsCreatingChecksumFiles, errorsCreatingChecksumFiles>>

\* what follows the walk function in the check command: an error it returned
\* ends the walk and is appended and printed; the end of the walk ends the
\* round, whose results are printed
CheckWalked(f, rest) ==
    IF f.err # Nil THEN
        /\ errorsCheckingChecksumFiles' = Append(f.errs, f.err)
        /\ resultsCheckingChecksumFiles' = f.results
        /\ stdout' = printResultsCheckingChecksumFiles(f.results, printError(f.err, f.out))
        /\ walk' = <<>>
        /\ paths' = Tail(paths)
        /\ pc' = "args"
    ELSE IF rest = <<>> THEN
        /\ errorsCheckingChecksumFiles' = f.errs
        /\ resultsCheckingChecksumFiles' = f.results
        /\ stdout' = printResultsCheckingChecksumFiles(f.results, f.out)
        /\ walk' = <<>>
        /\ paths' = Tail(paths)
        /\ pc' = "args"
    ELSE
        /\ errorsCheckingChecksumFiles' = f.errs
        /\ resultsCheckingChecksumFiles' = f.results
        /\ stdout' = f.out
        /\ walk' = rest
        /\ UNCHANGED <<paths, pc>>

\* one node of the walk of a directory argument; with the last node, or with
\* an error returned by the walk function, the rest of the round
CheckWalk ==
    /\ pc = "walk"
    /\ cmd = "check"
    /\ CheckWalked(WalkFunc(WalkNode(fs, Head(walk)), Head(walk),
                             handleChecksumFileVerification(fs, Head(walk),
                                 resultsCheckingChecksumFiles, stdout),
                             errorsCheckingChecksumFiles, resultsCheckingChecksumFiles,
                             stdout, fs),
                    WalkRest(WalkNode(fs, Head(walk)), Head(walk), Tail(walk)))
    /\ UNCHANGED <<fs, cwdGone, stdin, stdoutTTY, spinner, exitStatus, sigpc, writing, calls, cmd, args,
                   resultsCreatingChecksumFiles, errorsCreatingChecksumFiles>>

\* after the loop: printErrorsCheckingChecksumFiles()
CheckEnd ==
    /\ pc = "args"
    /\ cmd = "check"
    /\ paths = <<>>
    /\ stdout' = printErrorsCheckingChecksumFiles(errorsCheckingChecksumFiles, stdout)
    /\ pc' = "done"
    /\ UNCHANGED <<fs, cwdGone, stdin, stdoutTTY, spinner, exitStatus, sigpc, writing, calls, cmd, args, paths, walk,
                   resultsCheckingChecksumFiles, errorsCheckingChecksumFiles,
                   resultsCreatingChecksumFiles, errorsCreatingChecksumFiles>>

----------------------------------------------------------------------------
(* The create command.  Its Run is in a file that is not part of the         *)
(* sources at hand: what is known of it is gatherPaths, processPaths and    *)
(* the two lists.  The run is taken from the data model, which keeps the    *)
(* results per top-level path and empties them at the start of each, and    *)
(* from the check command: the header, gatherPaths, then for each path the  *)
(* results emptied, processPaths on the path with the creation handler,     *)
(* the results printed; at the end the errors printed.  What the command    *)
(* does with the third result of gatherPaths (hadGlob) is not known; no     *)
(* outcome and no entry of the error list depends on it here.               *)
(* processPaths itself is code.                                             *)

CreateStart ==
    /\ pc = "start"
    /\ cmd = "create"
    /\ LET g == gatherPaths(fs, args) IN
        /\ paths' = g.paths
        /\ errorsCreatingChecksumFiles' = errorsCreatingChecksumFiles \o g.errs
    /\ stdout' = printHeader(stdout)
    /\ pc' = "loop"
    /\ UNCHANGED <<fs, cwdGone, stdin, stdoutTTY, spinner, exitStatus, sigpc, writing, calls, cmd, args, walk,
                   resultsCheckingChecksumFiles, errorsCheckingChecksumFiles,
                   resultsCreatingChecksumFiles>>

\* the start of the processing of a top-level path: the results are emptied
CreateArg ==
    /\ pc = "loop"
    /\ cmd = "create"
    /\ paths # <<>>
    /\ resultsCreatingChecksumFiles' = NewResultSet
    /\ pc' = "args"
    /\ UNCHANGED <<fs, cwdGone, stdin, stdoutTTY, spinner, exitStatus, sigpc, writing, calls, cmd, args, paths, walk,
                   resultsCheckingChecksumFiles, errorsCheckingChecksumFiles,
                   errorsCreatingChecksumFiles, stdout>>

\* processPaths on the path: the round of its loop, up to the start of the
\* walk of a directory or to the call of the handler for a file
ProcessPath ==
    /\ pc = "args"
    /\ cmd = "create"
    /\ paths # <<>>
    /\ LET path == Head(paths)
           argFileInfo == Stat(fs, path)
           abs == Abs(path)
       IN
       IF argFileInfo.err # Nil THEN
           /\ errorsCreatingChecksumFiles' = Append(errorsCreatingChecksumFiles, argFileInfo.err)
           /\ paths' = Tail(paths)
           /\ pc' = "processed"
           /\ UNCHANGED <<resultsCreatingChecksumFiles, stdout, walk, fs>>
       ELSE IF abs.err # Nil THEN
           /\ errorsCreatingChecksumFiles' = Append(errorsCreatingChecksumFiles, abs.err)
           /\ paths' = Tail(paths)
           /\ pc' = "processed"
           /\ UNCHANGED <<resultsCreatingChecksumFiles, stdout, walk, fs>>
       ELSE IF argFileInfo.isDir THEN
           /\ walk' = << abs.path >>
           /\ pc' = "walk"
           /\ UNCHANGED <<resultsCreatingChecksumFiles, errorsCreatingChecksumFiles,
                          stdout, paths, fs>>
       ELSE IF Ext(abs.path) = SHA512EXT THEN
           /\ errorsCreatingChecksumFiles' =
                  Append(errorsCreatingChecksumFiles, isChecksumFileError(abs.path))
           /\ paths' = Tail(paths)
           /\ pc' = "processed"
           /\ UNCHANGED <<resultsCreatingChecksumFiles, stdout, walk, fs>>
       ELSE
           \* the handler is called next, with the path as it was given
           /\ pc' = "file"
           /\ UNCHANGED <<resultsCreatingChecksumFiles, errorsCreatingChecksumFiles,
                          stdout, walk, paths, fs>>
    /\ UNCHANGED <<cwdGone, stdin, stdoutTTY, spinner, exitStatus, sigpc, writing, calls, cmd, args,
                   resultsCheckingChecksumFiles, errorsCheckingChecksumFiles>>

\* what follows the handler called for a file path: the error it returns is
\* appended to the error list
ProcessHandled(handled) ==
    /\ errorsCreatingChecksumFiles' =
           IF handled.err # Nil THEN Append(errorsCreatingChecksumFiles, handled.err)
           ELSE errorsCreatingChecksumFiles
    /\ resultsCreatingChecksumFiles' = handled.results
    /\ stdout' = handled.out
    /\ fs' = handled.fs
    /\ paths' = Tail(paths)
    /\ pc' = "processed"
    /\ UNCHANGED walk

\* processPaths: the rest of the round of a file path:
\* if err := handler(path); err != nil { ... }
ProcessFile ==
    /\ pc = "file"
    /\ cmd = "create"
    /\ ProcessHandled(handleChecksumFileCreation(fs, Head(paths),
                           resultsCreatingChecksumFiles, stdout))
    /\ UNCHANGED <<cwdGone, stdin, stdoutTTY, spinner, exitStatus, sigpc, writing, calls, cmd, args,
                   resultsCheckingChecksumFiles, errorsCheckingChecksumFiles>>

\* what follows the walk function in processPaths: an error it returned ends
\* the walk and is appended and printed; the end of the walk ends the round
ProcessWalked(f, rest) ==
    /\ resultsCreatingChecksumFiles' = f.results
    /\ fs' = f.fs
    /\ IF f.err # Nil THEN
           /\ errorsCreatingChecksumFiles' = Append(f.errs, f.err)
           /\ stdout' = printError(f.err, f.out)
           /\ walk' = <<>>
           /\ paths' = Tail(paths)
           /\ pc' = "processed"
       ELSE IF rest = <<>> THEN
           /\ errorsCreatingChecksumFiles' = f.errs
           /\ stdout' = f.out
           /\ walk' = <<>>
           /\ paths' = Tail(paths)
           /\ pc' = "processed"
       ELSE
           /\ errorsCreatingChecksumFiles' = f.errs
           /\ stdout' = f.out
           /\ walk' = rest
           /\ UNCHANGED <<paths, pc>>

\* processPaths: one node of the walk of a directory; with the last node, or
\* with an error returned by the walk function, the rest of the round
ProcessWalk ==
    /\ pc = "walk"
    /\ cmd = "create"
    /\ ProcessWalked(WalkFunc(WalkNode(fs, Head(walk)), Head(walk),
                               handleChecksumFileCreation(fs, Head(walk),
                                   resultsCreatingChecksumFiles, stdout),
                               errorsCreatingChecksumFiles, resultsCreatingChecksumFiles,
                               stdout, fs),
                      WalkRest(WalkNode(fs, Head(walk)), Head(walk), Tail(walk)))
    /\ UNCHANGED <<cwdGone, stdin, stdoutTTY, spinner, exitStatus, sigpc, writing, calls, cmd, args,
                   resultsCheckingChecksumFiles, errorsCheckingChecksumFiles>>

\* processPaths has returned: the results of the path are printed
CreateArgEnd ==
    /\ pc = "processed"
    /\ cmd = "create"
    /\ stdout' = printResultsCreatingChecksumFiles(resultsCreatingChecksumFiles, stdout)
    /\ pc' = "loop"
    /\ UNCHANGED <<fs, cwdGone, stdin, stdoutTTY, spinner, exitStatus, sigpc, writing, calls, cmd, args, paths, walk,
                   resultsCheckingChecksumFiles, errorsCheckingChecksumFiles,
                   resultsCreatingChecksumFiles, errorsCreatingChecksumFiles>>

\* after the last path: the errors are printed
CreateEnd ==
    /\ pc = "loop"
    /\ cmd = "create"
    /\ paths = <<>>
    /\ stdout' = printErrorsCreatingChecksumFiles(errorsCreatingChecksumFiles, stdout)
    /\ pc' = "done"
    /\ UNCHANGED <<fs, cwdGone, stdin, stdoutTTY, spinner, exitStatus, sigpc, writing, calls, cmd, args, paths, walk,
                   resultsCheckingChecksumFiles, errorsCheckingChecksumFiles,
                   resultsCreatingChecksumFiles, errorsCreatingChecksumFiles>>

----------------------------------------------------------------------------
(* Direct calls of the classifiers on one data file, as the unit tests make *)
(* them: the file system is drawn, then verify, create and chmod are        *)
(* applied in any order.                                                    *)

\* a file system from a set of <<path, node>> pairs
MkFs(entries) ==
    [q \in {e[1] : e \in entries} |-> (CHOOSE e \in entries : e[1] = q)[2]]

Root == << Sep >>

\* the data file of the direct calls
DataPath == << "/", "a" >>

ContentBytes == {"h", "\n"}

\* the file contents drawn
Contents == UNION {[1..n -> ContentBytes] : n \in 0..MaxLen}

DeadBeef == << "d", "e", "a", "d", "b", "e", "e", "f" >>

\* sidecar texts around the digest of a content: the digest in both cases,
\* surrounded by white space, broken by white space, truncated, extended, other
SidecarTexts(content) ==
    LET h == EncodeToString(Sum512(content)) IN
    { h, ToUpper(h), h \o << "\n" >>, << " ", "\t" >> \o ToUpper(h) \o << "\r", "\n" >>,
      SubSeq(h, 1, 2) \o << " " >> \o SubSeq(h, 3, Len(h)),
      Front(h), h \o << "0" >>, EncodeToString(Sum512(content \o << "h" >>)),
      DeadBeef, <<>> }

DataNodes ==
    {NoNode} \cup {FileNode(m, c) : m \in {"ok", "locked", "ioerr"}, c \in Contents}

SidecarNodes(content) ==
    {NoNode}
      \cup {FileNode("ok", t) : t \in SidecarTexts(content)}
      \cup {FileNode(m, DeadBeef) : m \in {"locked", "ioerr", "staterr"}}

\* the directory of the data file, the data file and its sidecar
UnitFs(dm, d, sc) ==
    MkFs({e \in { << Root, DirNode(dm) >>, << DataPath, d >>, << DataPath \o SHA512EXT, sc >> } :
              e[2].kind # "none"})

\* &progressSpinner{enabled: false}: no animation task.  done is the channel
\* of the spinner, task the position of its goroutine, position and frames
\* the frame it prints next and the frames it has printed; started and
\* stopped count the calls of startProgress and of Stop of the run
NoSpinner == [enabled |-> FALSE, done |-> "open", task |-> "none", position |-> 0,
              frames |-> 0, started |-> 0, stopped |-> 0]

\* neither goroutine is inside a print call
NoWriting == [main |-> <<>>, sig |-> <<>>]

\* standard output is no terminal: the animation is inert
NoProgress ==
    /\ stdoutTTY = FALSE
    /\ spinner = NoSpinner

Idle ==
    /\ cmd = "none"
    /\ args = <<>>
    /\ pc = "unit"
    /\ paths = <<>>
    /\ walk = <<>>
    /\ stdin = [tty |-> TRUE, lines |-> <<>>, err |-> Nil]
    /\ NoProgress
    /\ exitStatus = 0
    /\ sigpc = "blocked"
    /\ writing = NoWriting
    /\ resultsCheckingChecksumFiles = <<>>
    /\ errorsCheckingChecksumFiles = <<>>
    /\ resultsCreatingChecksumFiles = <<>>
    /\ errorsCreatingChecksumFiles = <<>>
    /\ stdout = <<>>

runVars == <<cwdGone, stdin, stdoutTTY, spinner, exitStatus, sigpc, writing, cmd, args, pc, paths, walk,
             resultsCheckingChecksumFiles, errorsCheckingChecksumFiles,
             resultsCreatingChecksumFiles, errorsCreatingChecksumFiles, stdout>>

InitClassify ==
    /\ \E dm \in {"ok", "readonly"}, d \in DataNodes :
           \E sc \in SidecarNodes(d.content) : fs = UnitFs(dm, d, sc)
    /\ cwdGone = FALSE
    /\ calls = <<>>
    /\ Idle

\* one call: what was called, on which file system, what it returned and left
Call(op, path, before, result, after) ==
    [op |-> op, path |-> path, before |-> before, result |-> result, after |-> after]

\* result := checkChecksumFile(filePath)
CallVerify ==
    /\ pc = "unit"
    /\ Len(calls) < MaxCalls
    /\ calls' = Append(calls, Call("verify", DataPath, fs, checkChecksumFile(fs, DataPath), fs))
    /\ UNCHANGED <<fs, runVars>>

\* result := createChecksumFile(filePath)
CallCreate ==
    /\ pc = "unit"
    /\ Len(calls) < MaxCalls
    /\ LET r == createChecksumFile(fs, DataPath) IN
        /\ fs' = r.fs
        /\ calls' = Append(calls, Call("create", DataPath, fs, r.result, r.fs))
    /\ UNCHANGED runVars

\* os.Chmod(filePath, 0o000) between two calls
CallChmod ==
    /\ pc = "unit"
    /\ calls # <<>>
    /\ Len(calls) < MaxCalls
    /\ DataPath \in DOMAIN fs
    /\ fs[DataPath].mode = "ok"
    /\ fs' = Chmod000(fs, DataPath)
    /\ UNCHANGED <<calls, runVars>>

NextClassify == CallVerify \/ CallCreate \/ CallChmod

SpecClassify == InitClassify /\ [][NextClassify]_vars

----------------------------------------------------------------------------
(* The runs of the two commands: the file system, the arguments and the     *)
(* standard input are drawn, then the command runs to its end.              *)

\* arguments per command line
MaxArgs == 2

DirR == << "/", "r" >>

FileA == << "/", "r", "/", "a" >>

DirD == << "/", "r", "/", "d" >>

FileB == << "/", "r", "/", "d", "/", "b" >>

FileE == << "/", "r", "/", "e" >>

FileC == << "/", "w", "/", "c" >>

Missing == << "/", "m" >>

Dot == << "." >>

\* the sidecar of /r/a, named from the working directory
RelSidecar == << ".", ".", "/", "r", "/", "a" >> \o SHA512EXT

GlobAll == << "/", "r", "/", "*" >>

GlobNone == << "/", "m", "*" >>

GlobBad == << "/", "r", "/", "[" >>

\* /r holds a, (a.sha512), d/ and e; d holds b; the working directory /w holds c
RunFs(a, sidecar, dMode, gone) ==
    MkFs({e \in { << Root, DirNode("ok") >>,
                  << DirR, DirNode("ok") >>,
                  << FileA, a >>,
                  << FileA \o SHA512EXT, sidecar >>,
                  << DirD, DirNode(dMode) >>,
                  << FileB, FileNode("ok", << "i" >>) >>,
                  << FileB \o SHA512EXT, FileNode("ok", DeadBeef) >>,
                  << FileE, FileNode("ok", <<>>) >>,
                  << Cwd, IF gone THEN NoNode ELSE DirNode("ok") >>,
                  << FileC, IF gone THEN NoNode ELSE FileNode("ok", << "h" >>) >> } :
              e[2].kind # "none"})

\* /r/a and its sidecar: matching, locked without sidecar, unreadable inode
\* of the sidecar, no sidecar
FileAChoices ==
    { << FileNode("ok", << "h" >>), FileNode("ok", ToUpper(EncodeToString(Sum512(<< "h" >>)))) >>,
      << FileNode("locked", << "h" >>), NoNode >>,
      << FileNode("ok", << "h" >>), FileNode("staterr", <<>>) >>,
      << FileNode("ok", << "h" >>), NoNode >> }

ArgChoices(command) ==
    IF command = "check" THEN {DirR, FileA, FileA \o SHA512EXT, Missing, Dot, RelSidecar}
    ELSE {DirR, FileA, FileA \o SHA512EXT, Missing, Dot, RelSidecar, GlobAll, GlobNone, GlobBad}

\* check takes at least one argument (cobra.MinimumNArgs(1))
ArgLists(command) ==
    UNION {[1..n -> ArgChoices(command)] : n \in (IF command = "check" THEN 1 ELSE 0)..MaxArgs}

\* the name of os.Stdin
StdinName == << "/", "d", "e", "v", "/", "s", "t", "d", "i", "n" >>

\* a pipe whose read fails after one line
FailingStdin == [tty |-> FALSE, lines |-> << FileE >>, err |-> Err("read", StdinName, "EIO")]

\* a terminal; a pipe of three lines; with at most one argument, also the
\* pipe whose read fails
StdinChoices(command, arguments) ==
    IF command = "check" THEN {[tty |-> TRUE, lines |-> <<>>, err |-> Nil]}
    ELSE {[tty |-> TRUE, lines |-> <<>>, err |-> Nil],
          [tty |-> FALSE, lines |-> << << " " >> \o FileE \o << "\r" >>, << "\t" >>,
                                       FileA \o SHA512EXT >>, err |-> Nil]}
         \cup (IF Len(arguments) <= 1 THEN {FailingStdin} ELSE {})

Init ==
    /\ cwdGone \in BOOLEAN
    /\ \E a \in FileAChoices, dMode \in {"ok", "locked"} :
           fs = RunFs(a[1], a[2], dMode, cwdGone)
    /\ cmd \in {"check", "create"}
    /\ args \in ArgLists(cmd)
    /\ stdin \in StdinChoices(cmd, args)
    /\ NoProgress
    /\ exitStatus = 0
    /\ sigpc = "blocked"
    /\ writing = NoWriting
    /\ calls = <<>>
    /\ pc = "start"
    /\ paths = <<>>
    /\ walk = <<>>
    /\ resultsCheckingChecksumFiles = <<>>
    /\ errorsCheckingChecksumFiles = <<>>
    /\ resultsCreatingChecksumFiles = <<>>
    /\ errorsCreatingChecksumFiles = <<>>
    /\ stdout = <<>>

Next ==
    \/ CheckStart
    \/ CheckArg
    \/ CheckFile
    \/ CheckWalk
    \/ CheckEnd
    \/ CreateStart
    \/ CreateArg
    \/ ProcessPath
    \/ ProcessFile
    \/ ProcessWalk
    \/ CreateArgEnd
    \/ CreateEnd

Spec == Init /\ [][Next]_vars

----------------------------------------------------------------------------
(* The handler of one file with its progress animation, step by step: the   *)
(* main goroutine goes through startProgress, checkChecksumFile, Stop       *)
(* (close, then Wait) and the report of the outcome; the goroutine of the   *)
(* animation goes through its two selects and its print.                    *)

\* frames an animation prints before its ticker is no longer looked at
MaxFrames == 2

progressBarWidth == 10

\* startProgress
startProgress(sp, tty) ==
    IF ~tty THEN [NoSpinner EXCEPT !.started = sp.started + 1, !.stopped = sp.stopped]
    ELSE [enabled |-> TRUE, done |-> "open", task |-> "select", position |-> 0,
          frames |-> 0, started |-> sp.started + 1, stopped |-> sp.stopped]

\* a variant of Wait that returns at once
wgWait_Returns(sp) == TRUE

\* s.wg.Wait(): returns once the goroutine has run its deferred wg.Done()
wgWait(sp) == sp.task = "exited"

\* fmt.Printf("\r%s%s", prefix, buildProgressFrame(position))
printFrame(out, path, position) == Append(out, Line("frame", path, "", << position >>))

\* the files handled, one after the other
ProgressPaths == {<< FileA >>, << FileE >>, << FileA, FileE >>, << FileE, FileA >>}

InitProgress ==
    /\ cwdGone = FALSE
    /\ \E a \in FileAChoices : fs = RunFs(a[1], a[2], "ok", FALSE)
    /\ cmd = "check"
    /\ args = <<>>
    /\ paths \in ProgressPaths
    /\ stdin = [tty |-> TRUE, lines |-> <<>>, err |-> Nil]
    /\ stdoutTTY \in BOOLEAN
    /\ spinner = NoSpinner
    /\ exitStatus = 0
    /\ sigpc = "blocked"
    /\ writing = NoWriting
    /\ calls = <<>>
    /\ pc = "startProgress"
    /\ walk = <<>>
    /\ resultsCheckingChecksumFiles = <<>>
    /\ errorsCheckingChecksumFiles = <<>>
    /\ resultsCreatingChecksumFiles = <<>>
    /\ errorsCreatingChecksumFiles = <<>>
    /\ stdout = <<>>

\* what no step of the handler or of the animation changes
progressFixed == <<fs, cwdGone, stdin, stdoutTTY, exitStatus, sigpc, writing, calls, cmd, args, walk,
                   errorsCheckingChecksumFiles, resultsCreatingChecksumFiles,
                   errorsCreatingChecksumFiles>>

\* spinner := startProgress(prefix)
HandlerStart ==
    /\ pc = "startProgress"
    /\ paths # <<>>
    /\ spinner' = startProgress(spinner, stdoutTTY)
    /\ pc' = "checkChecksumFile"
    /\ UNCHANGED <<progressFixed, paths, resultsCheckingChecksumFiles, stdout>>

\* result := checkChecksumFile(fileAbsolutePath)
HandlerClassify ==
    /\ pc = "checkChecksumFile"
    /\ pc' = "Stop"
    /\ UNCHANGED <<progressFixed, paths, spinner, resultsCheckingChecksumFiles, stdout>>

\* spinner.Stop(), up to close(s.done); a disabled spinner returns at once
StopClose ==
    /\ pc = "Stop"
    /\ IF ~spinner.enabled THEN
           /\ spinner' = [spinner EXCEPT !.stopped = @ + 1]
           /\ pc' = "report"
       ELSE
           /\ spinner' = [spinner EXCEPT !.done = "closed", !.stopped = @ + 1]
           /\ pc' = "Wait"
    /\ UNCHANGED <<progressFixed, paths, resultsCheckingChecksumFiles, stdout>>

\* spinner.Stop(), s.wg.Wait()
StopWait ==
    /\ pc = "Wait"
    /\ wgWait(spinner)
    /\ pc' = "report"
    /\ UNCHANGED <<progressFixed, paths, spinner, resultsCheckingChecksumFiles, stdout>>

\* what follows Stop: the outcome is appended and the status line printed
Reported(handled) ==
    /\ resultsCheckingChecksumFiles' = handled.results
    /\ stdout' = handled.out

\* the rest of the handler, then the next file
HandlerReport ==
    /\ pc = "report"
    /\ Reported(handleChecksumFileVerification(fs, Head(paths),
                     resultsCheckingChecksumFiles, stdout))
    /\ paths' = Tail(paths)
    /\ pc' = IF Tail(paths) = <<>> THEN "done" ELSE "startProgress"
    /\ UNCHANGED <<progressFixed, spinner>>

\* the goroutine of the animation, the first select: done or default
SpinSelect ==
    /\ spinner.task = "select"
    /\ spinner' = [spinner EXCEPT !.task = IF spinner.done = "closed" THEN "exited" ELSE "print"]
    /\ UNCHANGED <<progressFixed, pc, paths, resultsCheckingChecksumFiles, stdout>>

\* the goroutine of the animation prints a frame
SpinPrint ==
    /\ spinner.task = "print"
    /\ stdout' = printFrame(stdout, Head(paths), spinner.position)
    /\ spinner' = [spinner EXCEPT !.task = "tick",
                                   !.position = (@ + 1) % (progressBarWidth + 1),
                                   !.frames = @ + 1]
    /\ UNCHANGED <<progressFixed, pc, paths, resultsCheckingChecksumFiles>>

\* the goroutine of the animation, the second select: done or the ticker;
\* when both are ready either is taken
SpinTick ==
    /\ spinner.task = "tick"
    /\ \/ /\ spinner.done = "closed"
          /\ spinner' = [spinner EXCEPT !.task = "exited"]
       \/ /\ spinner.frames < MaxFrames
          /\ spinner' = [spinner EXCEPT !.task = "select"]
    /\ UNCHANGED <<progressFixed, pc, paths, resultsCheckingChecksumFiles, stdout>>

NextProgress ==
    \/ HandlerStart
    \/ HandlerClassify
    \/ StopClose
    \/ StopWait
    \/ HandlerReport
    \/ SpinSelect
    \/ SpinPrint
    \/ SpinTick

SpecProgress == InitProgress /\ [][NextProgress]_vars

----------------------------------------------------------------------------
(* Runs of the check command that a termination signal may interrupt.  The  *)
(* goroutine started by init() waits for the signal, prints the four lists  *)
(* and ends the process with os.Exit(1); the main goroutine goes on running *)
(* beside it until main.main returns or os.Exit is reached.  Nothing orders *)
(* the two goroutines, so the run is taken one effect at a time here: each  *)
(* step of either goroutine writes one list, reads one list, or makes one   *)
(* call of fmt.Print, fmt.Printf or fmt.Println.  A line that the code      *)
(* writes with several calls (the status line of a file, an entry of the    *)
(* results) is written in several steps, and the steps of the other         *)
(* goroutine fall anywhere between them.  In these runs stdout is the       *)
(* sequence of the calls made, a call that writes a whole line being that   *)
(* line.                                                                    *)
(* The command's Run returning (pc = "done") does not end the process:      *)
(* cobra, Execute and main.main have yet to return, and the handler runs    *)
(* until they have.                                                         *)

checkFixed == <<fs, cwdGone, stdin, stdoutTTY, spinner, exitStatus, sigpc, calls, cmd, args,
                resultsCreatingChecksumFiles, errorsCreatingChecksumFiles>>

handlerFixed == <<fs, cwdGone, stdin, stdoutTTY, spinner, calls, cmd, args, paths, walk,
                  resultsCheckingChecksumFiles, errorsCheckingChecksumFiles,
                  resultsCreatingChecksumFiles, errorsCreatingChecksumFiles>>

\* fmt.Println()
Blank == Line("newline", <<>>, "", <<>>)

\* the two lines of printHeader
headerLines == << Line("header", <<>>, "", <<>>), Line("url", <<>>, "", <<>>) >>

\* fmt.Println(); fmt.Println("Processing", path)
processingLines(path) == << Blank, Line("processing", path, "", <<>>) >>

DecimalDigits == << "0", "1", "2", "3", "4", "5", "6", "7", "8", "9" >>

\* a count as fmt prints it
RECURSIVE Itoa(_)
Itoa(n) ==
    IF n < 10 THEN << DecimalDigits[n + 1] >>
    ELSE Itoa(n \div 10) \o << DecimalDigits[(n % 10) + 1] >>

\* fmt.Print("- ", result.Path), for a failed result with " | Error: " and
\* its error, then fmt.Println()
entryPrints(result, status) ==
    << Line("entry", result.Path, status,
            IF status = "CheckingFailed" THEN << result.Error >> ELSE <<>>),
       Blank >>

RECURSIVE entriesPrints(_, _)
entriesPrints(bucket, status) ==
    IF bucket = <<>> THEN <<>>
    ELSE entryPrints(Head(bucket), status) \o entriesPrints(Tail(bucket), status)

\* the line that gives the size of a bucket and, but for the matches, the
\* entries of the bucket
bucketListed(bucket, status) ==
    IF Len(bucket) = 0 THEN <<>>
    ELSE << Line("count", Itoa(Len(bucket)), status, <<>>) >>
         \o (IF status = "Match" THEN <<>> ELSE entriesPrints(bucket, status))

\* the results with a status, in order
bucketLines(results, status) ==
    bucketListed(SelectSeq(results, LAMBDA r : r.Status = status), status)

\* printResultsCheckingChecksumFiles(results), call by call: the number of
\* results, then the buckets in the order of the function; a result whose
\* status is none of the five is counted and listed nowhere
resultsCheckingLines(results) ==
    (IF Len(results) > 0 THEN << Line("count", Itoa(Len(results)), "Results", <<>>) >>
     ELSE <<>>)
        \o bucketLines(results, "Match")
        \o bucketLines(results, "NotMatch")
        \o bucketLines(results, "NotFound")
        \o bucketLines(results, "Locked")
        \o bucketLines(results, "CheckingFailed")

\* printErrorsCheckingChecksumFiles, the two lines before the loop
errorsHead == << Blank, Line("errors", <<>>, "", <<>>) >>

\* its loop: fmt.Println("- ", error) for each
errorItems(errs) == [k \in 1..Len(errs) |-> Line("item", <<>>, "", << errs[k] >>)]

\* printErrorsCheckingChecksumFiles, call by call
errorsCheckingLines(errs) == IF Len(errs) > 0 THEN errorsHead \o errorItems(errs) ELSE <<>>

\* the main goroutine has no print call of a started line or function left
MainIdle == writing.main = <<>>

\* print calls of the main goroutine: the first is made, the others are yet
\* to be
MainPrints(lines) ==
    IF lines = <<>> THEN UNCHANGED <<stdout, writing>>
    ELSE /\ stdout' = Append(stdout, Head(lines))
         /\ writing' = [writing EXCEPT !.main = Tail(lines)]

\* the file the handler is called for: the node of the walk, or the argument
CurrentFile == IF walk # <<>> THEN Head(walk) ELSE Head(paths)

\* the status line of a result on a pipe: fmt.Print(prefix), fmt.Print of
\* the emoji of its status, fmt.Printf of the duration unless the status is
\* NotFound, fmt.Println()
statusPrints(result) ==
    << Line("prefix", result.Path, "", <<>>), Line("emoji", <<>>, result.Status, <<>>) >>
        \o (IF result.Status # "NotFound" THEN << Line("duration", <<>>, "", <<>>) >>
            ELSE <<>>)
        \o << Blank >>

\* fmt.Println("Error: ", err)
errorLine(err) == Line("error", err.path, err.kind, <<>>)

\* what filepath.Walk returns when its function fails at the node: the error
\* handed to the function, or the error of the handler
WalkReturned(handled) ==
    WalkFunc(WalkNode(fs, Head(walk)), Head(walk), handled, <<>>, <<>>, <<>>, fs).err

\* printHeader()
StepCheckHeader ==
    /\ cmd = "check"
    /\ pc = "start"
    /\ MainIdle
    /\ MainPrints(headerLines)
    /\ paths' = args
    /\ pc' = "args"
    /\ UNCHANGED <<checkFixed, walk, resultsCheckingChecksumFiles,
                   errorsCheckingChecksumFiles>>

\* os.Stat(path), then "Processing path"
StepCheckStat ==
    /\ cmd = "check"
    /\ pc = "args"
    /\ MainIdle
    /\ paths # <<>>
    /\ IF Stat(fs, Head(paths)).err # Nil THEN
           /\ errorsCheckingChecksumFiles' =
                  Append(errorsCheckingChecksumFiles, Stat(fs, Head(paths)).err)
           /\ paths' = Tail(paths)
           /\ UNCHANGED <<stdout, writing, pc>>
       ELSE
           /\ MainPrints(processingLines(Head(paths)))
           /\ pc' = "reset"
           /\ UNCHANGED <<errorsCheckingChecksumFiles, paths>>
    /\ UNCHANGED <<checkFixed, walk, resultsCheckingChecksumFiles>>

\* resultsCheckingChecksumFiles = []ChecksumFileVerificationResult{}
StepCheckReset ==
    /\ cmd = "check"
    /\ pc = "reset"
    /\ MainIdle
    /\ resultsCheckingChecksumFiles' = NewResultSet
    /\ pc' = "branch"
    /\ UNCHANGED <<checkFixed, paths, walk, errorsCheckingChecksumFiles, stdout, writing>>

\* the error the branch of an argument appends, or Nil
BranchError(isDir, abs) ==
    IF abs.err # Nil THEN abs.err
    ELSE IF ~isDir /\ Ext(abs.path) = SHA512EXT THEN isChecksumFileError(abs.path)
    ELSE Nil

\* the branch of a directory or of a file, up to the walk or the handler
CheckBranched(isDir, abs) ==
    IF BranchError(isDir, abs) # Nil THEN
        /\ errorsCheckingChecksumFiles' =
               Append(errorsCheckingChecksumFiles, BranchError(isDir, abs))
        /\ IF isDir THEN pc' = "done" /\ UNCHANGED paths
           ELSE pc' = "args" /\ paths' = Tail(paths)
        /\ UNCHANGED walk
    ELSE IF isDir THEN
        /\ walk' = << abs.path >>
        /\ pc' = "walk"
        /\ UNCHANGED <<errorsCheckingChecksumFiles, paths>>
    ELSE
        /\ pc' = "file"
        /\ UNCHANGED <<errorsCheckingChecksumFiles, paths, walk>>

StepCheckBranch ==
    /\ cmd = "check"
    /\ pc = "branch"
    /\ MainIdle
    /\ CheckBranched(Stat(fs, Head(paths)).isDir, Abs(Head(paths)))
    /\ UNCHANGED <<checkFixed, resultsCheckingChecksumFiles, stdout, writing>>

\* the walk function at a node: a failed node is appended to the errors, a
\* directory is entered, a file goes to the handler
CheckVisited(node) ==
    IF node.err # Nil THEN
        /\ errorsCheckingChecksumFiles' = Append(errorsCheckingChecksumFiles, node.err)
        /\ pc' = "walkFnError"
        /\ UNCHANGED walk
    ELSE IF node.isDir THEN
        /\ walk' = WalkRest(node, Head(walk), Tail(walk))
        /\ pc' = IF WalkRest(node, Head(walk), Tail(walk)) = <<>> THEN "printResults" ELSE "walk"
        /\ UNCHANGED errorsCheckingChecksumFiles
    ELSE
        /\ pc' = "file"
        /\ UNCHANGED <<errorsCheckingChecksumFiles, walk>>

StepCheckVisit ==
    /\ cmd = "check"
    /\ pc = "walk"
    /\ MainIdle
    /\ CheckVisited(WalkNode(fs, Head(walk)))
    /\ UNCHANGED <<checkFixed, paths, resultsCheckingChecksumFiles, stdout, writing>>

\* fmt.Println("Error: ", err) in the walk function, which returns the error
StepCheckWalkFnError ==
    /\ cmd = "check"
    /\ pc = "walkFnError"
    /\ MainIdle
    /\ MainPrints(<< errorLine(Last(errorsCheckingChecksumFiles)) >>)
    /\ pc' = "walkError"
    /\ UNCHANGED <<checkFixed, paths, walk, resultsCheckingChecksumFiles,
                   errorsCheckingChecksumFiles>>

\* the error filepath.Walk returned is appended
StepCheckWalkError ==
    /\ cmd = "check"
    /\ pc = "walkError"
    /\ MainIdle
    /\ errorsCheckingChecksumFiles' =
           Append(errorsCheckingChecksumFiles,
                  WalkReturned(handleChecksumFileVerification(fs, Head(walk), <<>>, <<>>)))
    /\ pc' = "walkErrorPrint"
    /\ UNCHANGED <<checkFixed, paths, walk, resultsCheckingChecksumFiles, stdout, writing>>

\* fmt.Println("Error: ", err) after the walk
StepCheckWalkErrorPrint ==
    /\ cmd = "check"
    /\ pc = "walkErrorPrint"
    /\ MainIdle
    /\ MainPrints(<< errorLine(Last(errorsCheckingChecksumFiles)) >>)
    /\ walk' = <<>>
    /\ pc' = "printResults"
    /\ UNCHANGED <<checkFixed, paths, resultsCheckingChecksumFiles,
                   errorsCheckingChecksumFiles>>

\* the handler has returned nil: the walk goes on, or the round ends
CheckFileDone ==
    IF walk = <<>> THEN pc' = "printResults" /\ UNCHANGED walk
    ELSE /\ walk' = Tail(walk)
         /\ pc' = IF Tail(walk) = <<>> THEN "printResults" ELSE "walk"

\* the handler up to *results = append(*results, result); the error it
\* returns ends a walk and is not looked at for a file argument
CheckAppended(handled) ==
    /\ resultsCheckingChecksumFiles' = handled.results
    /\ IF handled.err # Nil THEN
           /\ pc' = IF walk # <<>> THEN "walkError" ELSE "printResults"
           /\ UNCHANGED walk
       ELSE IF handled.results # resultsCheckingChecksumFiles THEN
           /\ pc' = "status"
           /\ UNCHANGED walk
       ELSE CheckFileDone

StepCheckAppend ==
    /\ cmd = "check"
    /\ pc = "file"
    /\ MainIdle
    /\ CheckAppended(handleChecksumFileVerification(fs, CurrentFile,
                          resultsCheckingChecksumFiles, stdout))
    /\ UNCHANGED <<checkFixed, paths, errorsCheckingChecksumFiles, stdout, writing>>

\* the handler after the append: fmt.Print(prefix); the rest of the status
\* line is written by the calls that follow
StepCheckStatus ==
    /\ cmd = "check"
    /\ pc = "status"
    /\ MainIdle
    /\ MainPrints(statusPrints(Last(resultsCheckingChecksumFiles)))
    /\ CheckFileDone
    /\ UNCHANGED <<checkFixed, paths, resultsCheckingChecksumFiles,
                   errorsCheckingChecksumFiles>>

\* printResultsCheckingChecksumFiles(resultsCheckingChecksumFiles)
StepCheckResults ==
    /\ cmd = "check"
    /\ pc = "printResults"
    /\ MainIdle
    /\ MainPrints(resultsCheckingLines(resultsCheckingChecksumFiles))
    /\ paths' = Tail(paths)
    /\ pc' = "args"
    /\ UNCHANGED <<checkFixed, walk, resultsCheckingChecksumFiles,
                   errorsCheckingChecksumFiles>>

\* after the loop: printErrorsCheckingChecksumFiles(), and Run returns
StepCheckErrors ==
    /\ cmd = "check"
    /\ pc = "args"
    /\ MainIdle
    /\ paths = <<>>
    /\ MainPrints(errorsCheckingLines(errorsCheckingChecksumFiles))
    /\ pc' = "done"
    /\ UNCHANGED <<checkFixed, paths, walk, resultsCheckingChecksumFiles,
                   errorsCheckingChecksumFiles>>

\* the process is there: main.main has not returned and os.Exit was not
\* called; a command whose Run has returned (pc = "done") is still there
Running == pc \notin {"unit", "exited"}

\* the next print call of the function the main goroutine is in
MainWrite ==
    /\ Running
    /\ ~MainIdle
    /\ stdout' = Append(stdout, Head(writing.main))
    /\ writing' = [writing EXCEPT !.main = Tail(writing.main)]
    /\ UNCHANGED <<checkFixed, pc, paths, walk, resultsCheckingChecksumFiles,
                   errorsCheckingChecksumFiles>>

\* Run has returned to cobra: rootCmd.Execute() returns nil, Execute returns
\* to its caller main.main, which returns; the process ends with status 0,
\* whatever the goroutine of init() is doing
MainReturn ==
    /\ pc = "done"
    /\ MainIdle
    /\ pc' = "exited"
    /\ exitStatus' = 0
    /\ UNCHANGED <<handlerFixed, sigpc, stdout, writing>>

\* the results after the next step of the main goroutine
NextResults ==
    IF ~MainIdle \/ cmd # "check" THEN resultsCheckingChecksumFiles
    ELSE IF pc = "reset" THEN NewResultSet
    ELSE IF pc = "file" THEN
        handleChecksumFileVerification(fs, CurrentFile, resultsCheckingChecksumFiles,
            <<>>).results
    ELSE resultsCheckingChecksumFiles

\* the error list after the next step of the main goroutine
NextErrors ==
    IF ~MainIdle \/ cmd # "check" THEN errorsCheckingChecksumFiles
    ELSE IF pc = "args" /\ paths # <<>> /\ Stat(fs, Head(paths)).err # Nil THEN
        Append(errorsCheckingChecksumFiles, Stat(fs, Head(paths)).err)
    ELSE IF pc = "branch"
            /\ BranchError(Stat(fs, Head(paths)).isDir, Abs(Head(paths))) # Nil THEN
        Append(errorsCheckingChecksumFiles,
               BranchError(Stat(fs, Head(paths)).isDir, Abs(Head(paths))))
    ELSE IF pc = "walk" /\ WalkNode(fs, Head(walk)).err # Nil THEN
        Append(errorsCheckingChecksumFiles, WalkNode(fs, Head(walk)).err)
    ELSE IF pc = "walkError" THEN
        Append(errorsCheckingChecksumFiles,
               WalkReturned(handleChecksumFileVerification(fs, Head(walk), <<>>, <<>>)))
    ELSE errorsCheckingChecksumFiles

\* the zero value of an outcome and of an error: they stand for what the
\* memory holds where no element was stored yet
UnwrittenResult == [Path |-> <<>>, Status |-> "", Error |-> Nil]

UnwrittenError == Nil

\* a slice is three words, pointer, length and capacity, that the main
\* goroutine stores one after the other: a read beside the store can pair
\* the array of one value with the length of the other.  The elements the
\* array holds are read, the others are what the memory holds there
Paired(array, length, hole) ==
    [k \in 1..length |-> IF k <= Len(array) THEN array[k] ELSE hole]

\* what an unsynchronised read of a list gives when the next step of the
\* main goroutine makes it next: the list, or one of the two pairings
RacyRead(list, next, hole) ==
    {list, Paired(list, Len(next), hole), Paired(next, Len(list), hole)}

\* the handler has no print call of a started function left
SigIdle == writing.sig = <<>>

\* the signal arrives and the goroutine of init() receives it: <-c
Signal ==
    /\ Running
    /\ sigpc = "blocked"
    /\ sigpc' = "newline"
    /\ UNCHANGED <<handlerFixed, pc, exitStatus, stdout, writing>>

\* fmt.Println()
SigNewline ==
    /\ Running
    /\ sigpc = "newline"
    /\ stdout' = Append(stdout, Blank)
    /\ sigpc' = "resultsChecking"
    /\ UNCHANGED <<handlerFixed, pc, exitStatus, writing>>

\* the call printResultsCheckingChecksumFiles(resultsCheckingChecksumFiles):
\* the list is read when the call is made, the lines are written after
SigResultsChecking ==
    /\ Running
    /\ sigpc = "resultsChecking"
    /\ SigIdle
    /\ \E seen \in RacyRead(resultsCheckingChecksumFiles, NextResults, UnwrittenResult) :
           writing' = [writing EXCEPT !.sig = resultsCheckingLines(seen)]
    /\ sigpc' = "errorsChecking"
    /\ UNCHANGED <<handlerFixed, pc, exitStatus, stdout>>

\* printErrorsCheckingChecksumFiles(): len(errorsCheckingChecksumFiles) > 0
SigErrorsCheckingLen ==
    /\ Running
    /\ sigpc = "errorsChecking"
    /\ SigIdle
    /\ \E seen \in RacyRead(errorsCheckingChecksumFiles, NextErrors, UnwrittenError) :
           IF Len(seen) > 0 THEN
               /\ writing' = [writing EXCEPT !.sig = errorsHead]
               /\ sigpc' = "errorsCheckingRange"
           ELSE
               /\ sigpc' = "resultsCreating"
               /\ UNCHANGED writing
    /\ UNCHANGED <<handlerFixed, pc, exitStatus, stdout>>

\* its loop: range errorsCheckingChecksumFiles reads the list a second time
SigErrorsCheckingRange ==
    /\ Running
    /\ sigpc = "errorsCheckingRange"
    /\ SigIdle
    /\ \E seen \in RacyRead(errorsCheckingChecksumFiles, NextErrors, UnwrittenError) :
           writing' = [writing EXCEPT !.sig = errorItems(seen)]
    /\ sigpc' = "resultsCreating"
    /\ UNCHANGED <<handlerFixed, pc, exitStatus, stdout>>

\* printResultsCreatingChecksumFiles(resultsCreatingChecksumFiles): no step
\* of a check run writes the list
SigResultsCreating ==
    /\ Running
    /\ sigpc = "resultsCreating"
    /\ SigIdle
    /\ writing' = [writing EXCEPT !.sig =
                      printResultsCreatingChecksumFiles(resultsCreatingChecksumFiles, <<>>)]
    /\ sigpc' = "errorsCreating"
    /\ UNCHANGED <<handlerFixed, pc, exitStatus, stdout>>

\* printErrorsCreatingChecksumFiles()
SigErrorsCreating ==
    /\ Running
    /\ sigpc = "errorsCreating"
    /\ SigIdle
    /\ writing' = [writing EXCEPT !.sig =
                      printErrorsCreatingChecksumFiles(errorsCreatingChecksumFiles, <<>>)]
    /\ sigpc' = "exit"
    /\ UNCHANGED <<handlerFixed, pc, exitStatus, stdout>>

\* the next print call of the function the handler is in
SigWrite ==
    /\ Running
    /\ ~SigIdle
    /\ stdout' = Append(stdout, Head(writing.sig))
    /\ writing' = [writing EXCEPT !.sig = Tail(writing.sig)]
    /\ UNCHANGED <<handlerFixed, pc, exitStatus, sigpc>>

\* os.Exit(1)
SigExit ==
    /\ Running
    /\ sigpc = "exit"
    /\ SigIdle
    /\ exitStatus' = 1
    /\ pc' = "exited"
    /\ sigpc' = "exited"
    /\ UNCHANGED <<handlerFixed, stdout, writing>>

\* /r/a matching its sidecar
FileAMatching ==
    << FileNode("ok", << "h" >>), FileNode("ok", ToUpper(EncodeToString(Sum512(<< "h" >>)))) >>

\* /r/a unreadable, without sidecar
FileALocked == << FileNode("locked", << "h" >>), NoNode >>

\* a few runs: a file of each kind alone; a matching and an unreadable file
\* after an argument that is not there; a file twice; the directory /r/d,
\* whose walk ends or fails; the working directory and a sidecar named from
\* it, with the working directory there or gone
SignalRuns ==
    {[args |-> << FileA >>, a |-> a, d |-> "ok", gone |-> FALSE] : a \in FileAChoices}
    \cup {[args |-> << Missing, FileA >>, a |-> a, d |-> "ok", gone |-> FALSE] :
              a \in {FileAMatching, FileALocked}}
    \cup {[args |-> << FileA, FileA >>, a |-> FileAMatching, d |-> "ok", gone |-> FALSE]}
    \cup {[args |-> << DirD >>, a |-> FileAMatching, d |-> m, gone |-> FALSE] :
              m \in {"ok", "locked"}}
    \cup {[args |-> l, a |-> FileAMatching, d |-> "ok", gone |-> g] :
              l \in {<< Dot >>, << RelSidecar >>}, g \in BOOLEAN}

InitSignal ==
    /\ \E r \in SignalRuns :
           /\ args = r.args
           /\ cwdGone = r.gone
           /\ fs = RunFs(r.a[1], r.a[2], r.d, r.gone)
    /\ cmd = "check"
    /\ stdin \in StdinChoices(cmd, args)
    /\ NoProgress
    /\ exitStatus = 0
    /\ sigpc = "blocked"
    /\ writing = NoWriting
    /\ calls = <<>>
    /\ pc = "start"
    /\ paths = <<>>
    /\ walk = <<>>
    /\ resultsCheckingChecksumFiles = <<>>
    /\ errorsCheckingChecksumFiles = <<>>
    /\ resultsCreatingChecksumFiles = <<>>
    /\ errorsCreatingChecksumFiles = <<>>
    /\ stdout = <<>>

NextSignal ==
    \/ StepCheckHeader
    \/ StepCheckStat
    \/ StepCheckReset
    \/ StepCheckBranch
    \/ StepCheckVisit
    \/ StepCheckWalkFnError
    \/ StepCheckWalkError
    \/ StepCheckWalkErrorPrint
    \/ StepCheckAppend
    \/ StepCheckStatus
    \/ StepCheckResults
    \/ StepCheckErrors
    \/ MainWrite
    \/ MainReturn
    \/ Signal
    \/ SigNewline
    \/ SigResultsChecking
    \/ SigErrorsCheckingLen
    \/ SigErrorsCheckingRange
    \/ SigResultsCreating
    \/ SigErrorsCreating
    \/ SigWrite
    \/ SigExit

SpecSignal == InitSignal /\ [][NextSignal]_vars

----------------------------------------------------------------------------
(* Runs during which another process removes the working directory, at any  *)
(* point of the run: before it, between two rounds, during a walk, or       *)
(* between the caller's filepath.Abs of a file path and the handler's own   *)
(* filepath.Abs of the same path.                                           *)

\* the file /r/e, named from the working directory
RelFile == << ".", ".", "/", "r", "/", "e" >>

\* a path at or under a directory
Under(q, dir) ==
    q = dir \/ (Len(q) > Len(dir) /\ SubSeq(q, 1, Len(dir) + 1) = dir \o << Sep >>)

\* the working directory and what it holds are removed: os.Getwd fails from now on
RemoveCwd ==
    /\ Running
    /\ ~cwdGone
    /\ cwdGone' = TRUE
    /\ fs' = [q \in {r \in DOMAIN fs : ~Under(r, Cwd)} |-> fs[q]]
    /\ UNCHANGED <<stdin, stdoutTTY, spinner, exitStatus, sigpc, writing, calls, cmd, args, pc, paths, walk,
                   resultsCheckingChecksumFiles, errorsCheckingChecksumFiles,
                   resultsCreatingChecksumFiles, errorsCreatingChecksumFiles, stdout>>

RemovalArgChoices(command) ==
    IF command = "check" THEN {RelFile, FileA, DirR, Missing}
    ELSE {RelFile, FileA, DirR, Missing, GlobBad}

InitRemoval ==
    /\ cwdGone = FALSE
    /\ \E a \in FileAChoices, dMode \in {"ok", "locked"} :
           fs = RunFs(a[1], a[2], dMode, FALSE)
    /\ cmd \in {"check", "create"}
    /\ args \in UNION {[1..n -> RemovalArgChoices(cmd)] : n \in 1..MaxArgs}
    /\ stdin = [tty |-> TRUE, lines |-> <<>>, err |-> Nil]
    /\ NoProgress
    /\ exitStatus = 0
    /\ sigpc = "blocked"
    /\ writing = NoWriting
    /\ calls = <<>>
    /\ pc = "start"
    /\ paths = <<>>
    /\ walk = <<>>
    /\ resultsCheckingChecksumFiles = <<>>
    /\ errorsCheckingChecksumFiles = <<>>
    /\ resultsCreatingChecksumFiles = <<>>
    /\ errorsCreatingChecksumFiles = <<>>
    /\ stdout = <<>>

NextRemoval == Next \/ RemoveCwd

SpecRemoval == InitRemoval /\ [][NextRemoval]_vars

----------------------------------------------------------------------------
(* What the claims about the classifiers speak of *)

VerifyCalls == {i \in 1..Len(calls) : calls[i].op = "verify"}

CreateCalls == {i \in 1..Len(calls) : calls[i].op = "create"}

DataOf(fsys) == NodeAt(fsys, DataPath)

SidecarOf(fsys) == NodeAt(fsys, DataPath \o SHA512EXT)

\* the data file is a regular file that opens
Opens(fsys) == DataOf(fsys).kind = "file" /\ DataOf(fsys).mode \in {"ok", "ioerr"}

\* the data file opens and reads to its end
Readable(fsys) == DataOf(fsys).kind = "file" /\ DataOf(fsys).mode = "ok"

NoSidecar(fsys) == SidecarOf(fsys).kind = "none"

\* the sidecar is there and reads
SidecarReads(fsys) == SidecarOf(fsys).kind = "file" /\ SidecarOf(fsys).mode = "ok"

\* the sidecar is there: its stat succeeds
SidecarExists(fsys) == SidecarOf(fsys).kind = "file" /\ SidecarOf(fsys).mode # "staterr"

\* a new entry can be made in the directory of the data file
DirWritable(fsys) == NodeAt(fsys, Root).mode = "ok"

\* the lowercase-hex digest of the data file
HexDigest(fsys) == EncodeToString(Sum512(DataOf(fsys).content))

LowerHexDigits == {"0", "1", "2", "3", "4", "5", "6", "7", "8", "9", "a", "b", "c", "d", "e", "f"}

\* text is hex in some letter case with white space around it and nowhere else
SameUpToCaseAndSpace(text, hex) ==
    \E i \in 0..Len(text) : \E j \in 0..(Len(text) - i) :
        LET m == SubSeq(text, i + 1, Len(text) - j) IN
        /\ \A k \in 1..i : text[k] \in {" ", "\t", "\n", "\r"}
        /\ \A k \in (Len(text) - j + 1)..Len(text) : text[k] \in {" ", "\t", "\n", "\r"}
        /\ Len(m) = Len(hex)
        /\ \A k \in 1..Len(m) : m[k] = hex[k] \/ m[k] = Upper(hex[k])

NoError(result) == result.Error = Nil

----------------------------------------------------------------------------
(* C1: round trip.  As stated: create on a readable data file that has no   *)
(* sidecar, then verify with nothing changed in between, returns Match.     *)

C1_RoundTripAsStated ==
    \A i \in CreateCalls :
        (/\ i + 1 \in VerifyCalls
         /\ Readable(calls[i].before) /\ NoSidecar(calls[i].before)
         /\ calls[i + 1].before = calls[i].after)
            => calls[i + 1].result.Status = "Match"

\* C1, amended: create on a readable data file that has no sidecar, in a
\* directory where the sidecar can be written, then verify with nothing
\* changed in between, returns Match.
C1_RoundTrip ==
    \A i \in CreateCalls :
        (/\ i + 1 \in VerifyCalls
         /\ Readable(calls[i].before) /\ NoSidecar(calls[i].before)
         /\ DirWritable(calls[i].before)
         /\ calls[i + 1].before = calls[i].after)
            => calls[i + 1].result.Status = "Match"

C1_Witness ==
    \E i \in CreateCalls :
        /\ i + 1 \in VerifyCalls
        /\ Readable(calls[i].before) /\ NoSidecar(calls[i].before)
        /\ DirWritable(calls[i].before)
        /\ Len(DataOf(calls[i].before).content) = MaxLen
        /\ calls[i].result.Status = "Created"
        /\ calls[i + 1].before = calls[i].after
        /\ calls[i + 1].result.Status = "Match"

----------------------------------------------------------------------------
(* C2: the comparison.  As stated: when the data file opens and the sidecar *)
(* exists and reads, verify returns Match if the trimmed sidecar text       *)
(* equals the hex digest ignoring case and NotMatch if not, with no error.  *)

C2_CompareExpected(c) ==
    /\ c.result.Status =
          IF SameUpToCaseAndSpace(SidecarOf(c.before).content, HexDigest(c.before))
              THEN "Match" ELSE "NotMatch"
    /\ NoError(c.result)

C2_CompareAsStated ==
    \A i \in VerifyCalls :
        (Opens(calls[i].before) /\ SidecarReads(calls[i].before))
            => C2_CompareExpected(calls[i])

\* C2, amended: when the data file opens and reads to its end and the
\* sidecar exists and reads, verify returns Match if the trimmed sidecar
\* text equals the hex digest ignoring case and NotMatch if not, no error.
C2_Compare ==
    \A i \in VerifyCalls :
        (Readable(calls[i].before) /\ SidecarReads(calls[i].before))
            => C2_CompareExpected(calls[i])

\* a Match on a sidecar in another case with white space around it, and a
\* NotMatch, in one behaviour
C2_Witness ==
    /\ \E i \in VerifyCalls :
        /\ Readable(calls[i].before) /\ SidecarReads(calls[i].before)
        /\ SidecarOf(calls[i].before).content # HexDigest(calls[i].before)
        /\ SidecarOf(calls[i].before).content # TrimSpace(SidecarOf(calls[i].before).content)
        /\ calls[i].result.Status = "Match"

C2_WitnessNotMatch ==
    \E i \in VerifyCalls :
        /\ Readable(calls[i].before) /\ SidecarReads(calls[i].before)
        /\ calls[i].result.Status = "NotMatch"

----------------------------------------------------------------------------
(* C3: no sidecar.  As stated: for any file with no sidecar verify returns  *)
(* NotFound with no error, whatever the content.                            *)

C3_NotFoundAsStated ==
    \A i \in VerifyCalls :
        (DataOf(calls[i].before).kind = "file" /\ NoSidecar(calls[i].before))
            => (calls[i].result.Status = "NotFound" /\ NoError(calls[i].result))

\* C3, amended: for any file that can be opened and has no sidecar verify
\* returns NotFound with no error, whatever the content.
C3_NotFound ==
    \A i \in VerifyCalls :
        (Opens(calls[i].before) /\ NoSidecar(calls[i].before))
            => (calls[i].result.Status = "NotFound" /\ NoError(calls[i].result))

C3_Witness ==
    \E i \in VerifyCalls :
        /\ Opens(calls[i].before) /\ NoSidecar(calls[i].before)
        /\ Len(DataOf(calls[i].before).content) = MaxLen
        /\ calls[i].result.Status = "NotFound"

----------------------------------------------------------------------------
(* C4: the data file is opened before the sidecar is looked at: when the    *)
(* open fails with permission denied verify returns Locked with an error,   *)
(* with or without a sidecar.                                               *)

C4_LockedFirst ==
    \A i \in VerifyCalls :
        IsPermission(Open(calls[i].before, DataPath))
            => (/\ calls[i].result.Status = "Locked"
                /\ ~NoError(calls[i].result))

C4_Witness ==
    \E i \in VerifyCalls :
        /\ IsPermission(Open(calls[i].before, DataPath))
        /\ NoSidecar(calls[i].before)
        /\ calls[i].result.Status = "Locked"

----------------------------------------------------------------------------
(* C5: create on a file whose sidecar exists returns Existing with no       *)
(* error and writes nothing, also when the data file cannot be read.        *)

C5_ExistingUntouched ==
    \A i \in CreateCalls :
        SidecarExists(calls[i].before)
            => (/\ calls[i].result.Status = "Existing"
                /\ NoError(calls[i].result)
                /\ calls[i].after = calls[i].before)

C5_Witness ==
    \E i \in CreateCalls :
        /\ SidecarExists(calls[i].before)
        /\ ~Readable(calls[i].before)
        /\ calls[i].result.Status = "Existing"
        /\ SidecarOf(calls[i].after).content = DeadBeef

----------------------------------------------------------------------------
(* C6: create on a readable file with no sidecar.  As stated: it writes a   *)
(* sidecar holding exactly the lowercase-hex digest and returns Created.    *)

C6_CreatedExpected(c) ==
    /\ c.result.Status = "Created"
    /\ NoError(c.result)
    /\ SidecarOf(c.after) = FileNode("ok", HexDigest(c.before))
    /\ Len(SidecarOf(c.after).content) = 2 * DigestSize
    /\ \A k \in 1..Len(SidecarOf(c.after).content) :
           SidecarOf(c.after).content[k] \in LowerHexDigits
    /\ \A q \in DOMAIN c.before : c.after[q] = c.before[q]

C6_CreatesAsStated ==
    \A i \in CreateCalls :
        (Readable(calls[i].before) /\ NoSidecar(calls[i].before))
            => C6_CreatedExpected(calls[i])

\* C6, amended: create on a readable file with no sidecar, in a directory
\* where the sidecar can be written, writes a sidecar holding exactly the
\* lowercase-hex digest and returns Created with no error.
C6_Creates ==
    \A i \in CreateCalls :
        (Readable(calls[i].before) /\ NoSidecar(calls[i].before) /\ DirWritable(calls[i].before))
            => C6_CreatedExpected(calls[i])

C6_Witness ==
    \E i \in CreateCalls :
        /\ Readable(calls[i].before) /\ NoSidecar(calls[i].before)
        /\ Len(DataOf(calls[i].before).content) = MaxLen
        /\ calls[i].result.Status = "Created"
        /\ SidecarOf(calls[i].after).content = HexDigest(calls[i].before)

----------------------------------------------------------------------------
(* C7: in every outcome of verify or create the error is non-nil exactly    *)
(* when the status is Locked, CheckingFailed, LockedCreation or Failed.     *)

ErrorStatuses == {"Locked", "CheckingFailed", "LockedCreation", "Failed"}

CleanStatuses == {"Match", "NotMatch", "NotFound", "Created", "Existing"}

C7_StatusAgreesWithError ==
    \A i \in 1..Len(calls) :
        /\ calls[i].result.Status \in ErrorStatuses \cup CleanStatuses
        /\ calls[i].result.Status \in ErrorStatuses <=> ~NoError(calls[i].result)

\* an outcome of each kind in one behaviour: a failed verify of a missing
\* file and a create that found the sidecar
C7_Witness ==
    /\ \E i \in VerifyCalls :
        calls[i].result.Status = "CheckingFailed" /\ IsNotExist(calls[i].result.Error)
    /\ \E i \in CreateCalls :
        calls[i].result.Status \in {"Failed", "LockedCreation"}

----------------------------------------------------------------------------
(* What the claims about the runs speak of *)

\* the results and the error list of the command being run
Results == IF cmd = "check" THEN resultsCheckingChecksumFiles ELSE resultsCreatingChecksumFiles

Errors == IF cmd = "check" THEN errorsCheckingChecksumFiles ELSE errorsCreatingChecksumFiles

IsSidecarPath(path) == HasSuffix(path, SHA512EXT)

\* the status lines printed so far, one per classified file, in order
StatusLines(out) == SelectSeq(out, LAMBDA l : l.line = "status")

\* the status and error lines printed so far
ReportLines(out) == SelectSeq(out, LAMBDA l : l.line \in {"status", "error"})

ClassifiedPaths == [i \in 1..Len(StatusLines(stdout)) |-> StatusLines(stdout)[i].path]

RECURSIVE Flatten(_)
Flatten(seqs) == IF seqs = <<>> THEN <<>> ELSE Head(seqs) \o Flatten(Tail(seqs))

\* the regular files that are no sidecars at or under a node, in lexical order
RECURSIVE FilesUnder(_, _)
FilesUnder(fsys, path) ==
    IF fsys[path].kind = "file" THEN (IF IsSidecarPath(path) THEN <<>> ELSE << path >>)
    ELSE LET below == Sorted({Base(q) : q \in Children(fsys, path)}) IN
         Flatten([i \in 1..Len(below) |-> FilesUnder(fsys, Join(path, below[i]))])

\* the top-level inputs of the run after expansion
TopPaths == IF cmd = "check" THEN args ELSE gatherPaths(fs, args).paths

\* a top-level input that names something
Usable(path) == Stat(fs, path).err = Nil /\ Abs(path).err = Nil

\* the candidates of a top-level input
CandidatesOf(path) ==
    IF ~Usable(path) THEN <<>> ELSE FilesUnder(fs, Abs(path).path)

\* a node at or under a directory at which the walk fails
WalkFault(dir) ==
    \E q \in DOMAIN fs :
        /\ q = dir \/ (Len(q) > Len(dir) /\ SubSeq(q, 1, Len(dir) + 1) = dir \o << Sep >>)
        /\ fs[q].mode = "staterr" \/ (fs[q].kind = "dir" /\ fs[q].mode = "locked")

\* nothing goes wrong in the traversal itself
NoTraversalFault ==
    \A i \in 1..Len(TopPaths) :
        /\ Stat(fs, TopPaths[i]).err = Nil => Abs(TopPaths[i]).err = Nil
        /\ Usable(TopPaths[i]) => ~WalkFault(Abs(TopPaths[i]).path)

StoppingStatuses ==
    {"Locked", "CheckingFailed", "NotFound", "LockedCreation", "Failed", "Existing"}

----------------------------------------------------------------------------
(* C8: an outcome of Locked, CheckingFailed or NotFound (LockedCreation,    *)
(* Failed or Existing when creating) never stops the run: when nothing      *)
(* fails in the traversal itself, a finished run has classified every       *)
(* candidate of every root, in order, whatever the outcomes were.           *)

C8_OutcomeNeverStopsRun ==
    (pc = "done" /\ NoTraversalFault)
        => ClassifiedPaths = Flatten([i \in 1..Len(TopPaths) |-> CandidatesOf(TopPaths[i])])

\* a finished verification run in which a file classified Locked is
\* followed by a classified file of the same root and by one of a later root
C8_Witness ==
    /\ cmd = "check"
    /\ pc = "done"
    /\ NoTraversalFault
    /\ Len(TopPaths) = 2
    /\ \E i \in 1..Len(StatusLines(stdout)) :
        /\ StatusLines(stdout)[i].status = "Locked"
        /\ i + 1 < Len(StatusLines(stdout))
        /\ StatusLines(stdout)[Len(StatusLines(stdout))].path = FileA

----------------------------------------------------------------------------
(* C9: a top-level input that cannot be turned into candidates adds an      *)
(* entry to the error list and is excluded, and every other input of the    *)
(* run is still processed.                                                  *)

\* the top-level inputs as given: the arguments, then the lines of the
\* standard input that are read
Inputs ==
    IF cmd = "check" THEN args
    ELSE args \o (IF Len(args) = 0 \/ ~isStdinTTY THEN readPathsFromStdin.paths ELSE <<>>)

\* the entry an input that cannot be turned into candidates leaves
ErrorOf(input) ==
    IF cmd = "create" /\ hasGlobMeta(input) THEN
        IF Glob(fs, input).err # Nil THEN Glob(fs, input).err
        ELSE IF Len(Glob(fs, input).matches) = 0 THEN Err("glob", input, "no matches")
        ELSE Nil
    ELSE IF Stat(fs, input).err # Nil THEN Stat(fs, input).err
    ELSE Abs(input).err

InErrors(err) == \E k \in 1..Len(Errors) : Errors[k] = err

Classified(path) == \E k \in 1..Len(ClassifiedPaths) : ClassifiedPaths[k] = path

C9_InputsHandled ==
    \A i \in 1..Len(Inputs) :
        LET input == Inputs[i] IN
        \* (a sidecar named as an input of create may have come into being
        \* during the run: what it left is not told from the final state)
        /\ (ErrorOf(input) # Nil /\ (cmd = "check" \/ ~IsSidecarPath(input)))
               => InErrors(ErrorOf(input))
        /\ (/\ ErrorOf(input) = Nil
            /\ ~hasGlobMeta(input)
            /\ ~Stat(fs, input).isDir
            /\ ~IsSidecarPath(input)) => Classified(Abs(input).path)

\* C9 as stated: at the end of a run every input that cannot be turned
\* into candidates has its entry in the error list and every other input
\* that names a regular file was classified
C9_BadInputDoesNotStopRun == pc = "done" => C9_InputsHandled

\* the same, for the runs that were not left by the return of check.go:66
C9_HoldsUnlessReturned == (pc = "done" /\ paths = <<>>) => C9_InputsHandled

\* a finished run whose first input left an entry and whose second was classified
C9_Witness ==
    /\ pc = "done"
    /\ paths = <<>>
    /\ Len(args) = 2
    /\ ErrorOf(args[1]) # Nil
    /\ InErrors(ErrorOf(args[1]))
    /\ args[2] = FileA
    /\ Classified(FileA)

----------------------------------------------------------------------------
(* C10: sidecar files are never candidates.                                 *)

\* no outcome is one of a sidecar, in the results or on the output
NoSidecarOutcome ==
    /\ \A i \in 1..Len(resultsCheckingChecksumFiles) :
           ~IsSidecarPath(resultsCheckingChecksumFiles[i].Path)
    /\ \A i \in 1..Len(resultsCreatingChecksumFiles) :
           ~IsSidecarPath(resultsCreatingChecksumFiles[i].Path)
    /\ \A i \in 1..Len(ClassifiedPaths) : ~IsSidecarPath(ClassifiedPaths[i])

\* the walk is at a sidecar file
AtWalkedSidecar ==
    /\ pc = "walk"
    /\ IsSidecarPath(Head(walk))
    /\ Stat(fs, Head(walk)).err = Nil
    /\ ~Stat(fs, Head(walk)).isDir

\* the step over it is silent: no outcome, no entry in the error list, no
\* status or error line
WalkedSidecarSkipped ==
    AtWalkedSidecar =>
        /\ Results' = Results
        /\ Errors' = Errors
        /\ ReportLines(stdout') = ReportLines(stdout)

\* the run is at a top-level path that is a sidecar file
AtTopLevelSidecar ==
    /\ pc = "args"
    /\ paths # <<>>
    /\ IsSidecarPath(Head(paths))
    /\ Stat(fs, Head(paths)).err = Nil
    /\ ~Stat(fs, Head(paths)).isDir

NoNewOutcome ==
    /\ \A i \in 1..Len(Results') : \E k \in 1..Len(Results) : Results[k] = Results'[i]
    /\ ReportLines(stdout') = ReportLines(stdout)

\* as stated: the step leaves an "is a checksum file" entry and no outcome
TopLevelSidecarRejectedAsStated ==
    AtTopLevelSidecar =>
        /\ Len(Errors') = Len(Errors) + 1
        /\ Errors'[Len(Errors')].kind = "is a checksum file."
        /\ Errors'[Len(Errors')].path = Resolve(Head(paths))
        /\ NoNewOutcome

\* amended: the entry is the failure of filepath.Abs when the absolute form
\* of the path cannot be computed
TopLevelSidecarRejected ==
    AtTopLevelSidecar =>
        /\ Len(Errors') = Len(Errors) + 1
        /\ Errors'[Len(Errors')] =
              IF Abs(Head(paths)).err # Nil THEN Abs(Head(paths)).err
              ELSE Err("", Abs(Head(paths)).path, "is a checksum file.")
        /\ SubSeq(Errors', 1, Len(Errors)) = Errors
        /\ NoNewOutcome

\* C10 as stated: no outcome has a path ending in .sha512; a sidecar met in
\* a walk is skipped silently; a top-level path that is a sidecar file adds
\* an "is a checksum file" entry to the error list and yields no outcome
C10_SidecarNeverCandidateAsStated ==
    [][/\ NoSidecarOutcome'
       /\ WalkedSidecarSkipped
       /\ TopLevelSidecarRejectedAsStated]_vars

\* C10, amended: no outcome has a path ending in .sha512; a sidecar met in a
\* walk is skipped silently; a top-level path that is a sidecar file yields
\* no outcome and adds one entry to the error list: "is a checksum file", or
\* the failure of filepath.Abs when its absolute form cannot be computed
C10_SidecarNeverCandidate ==
    [][/\ NoSidecarOutcome'
       /\ WalkedSidecarSkipped
       /\ TopLevelSidecarRejected]_vars

\* a finished run that walked over a sidecar, classified the file beside it
\* and rejected the sidecar named as an argument
C10_Witness ==
    /\ pc = "done"
    /\ Len(args) = 2
    /\ args[1] = DirR
    /\ args[2] = FileA \o SHA512EXT
    /\ NodeAt(fs, FileA \o SHA512EXT).kind = "file"
    /\ NodeAt(fs, FileA \o SHA512EXT).mode = "ok"
    /\ Classified(FileA)
    /\ Classified(FileE)
    /\ InErrors(isChecksumFileError(FileA \o SHA512EXT))
    /\ NoSidecarOutcome

----------------------------------------------------------------------------
(* C11: no error is silently dropped: every failure that occurs while a run *)
(* expands its inputs, walks a directory or classifies a file is, after the *)
(* step in which it occurs, a new entry of the error list or the error of a *)
(* new outcome.                                                             *)

\* the failure of classifying a file, Nil when there is none
ClassifyFailure(path) ==
    IF cmd = "check" THEN checkChecksumFile(fs, path).Error
    ELSE createChecksumFile(fs, path).result.Error

\* the failure of handling a file: of filepath.Abs, else of the classification
HandleFailure(path) ==
    IF Abs(path).err # Nil THEN {Abs(path).err}
    ELSE IF IsSidecarPath(Abs(path).path) THEN {}
    ELSE {ClassifyFailure(Abs(path).path)} \ {Nil}

\* the failures of the step the run takes next
FailuresAt ==
    IF pc = "start" THEN
        (IF cmd = "create" THEN {gatherPaths(fs, args).errs[k] :
                                    k \in 1..Len(gatherPaths(fs, args).errs)}
         ELSE {})
    ELSE IF pc = "args" /\ paths # <<>> THEN
        (IF Stat(fs, Head(paths)).err # Nil THEN {Stat(fs, Head(paths)).err}
         ELSE {Abs(Head(paths)).err} \ {Nil})
    ELSE IF pc = "walk" THEN
        (IF WalkNode(fs, Head(walk)).err # Nil THEN {WalkNode(fs, Head(walk)).err}
         ELSE IF WalkNode(fs, Head(walk)).isDir THEN {}
         ELSE HandleFailure(Head(walk)))
    ELSE IF pc = "file" THEN HandleFailure(Head(paths))
    ELSE {}

\* the step is one of the run, not of its environment
RunStep == << pc, paths, walk >>' # << pc, paths, walk >>

\* the entries the step adds to the error list
NewErrors ==
    IF Len(Errors') > Len(Errors)
        THEN {Errors'[k] : k \in (Len(Errors) + 1)..Len(Errors')}
    ELSE {}

\* the errors of the outcomes the step adds to the results
NewOutcomeErrors ==
    {Results'[k].Error :
        k \in {j \in 1..Len(Results') : j > Len(Results) \/ pc = "args"}} \ {Nil}

\* C11 as stated: every failure of a step of the run is a new entry of the
\* error list or the error of a new outcome
C11_NoErrorDropped ==
    [][RunStep => \A err \in FailuresAt : err \in NewErrors \cup NewOutcomeErrors]_vars

\* the same holds of every step but the call of the handler for a file
\* argument of check (check.go:99), whose returned error is not looked at
C11_DroppedOnlyByCheckFile ==
    [][(RunStep /\ ~(cmd = "check" /\ pc = "file"))
          => \A err \in FailuresAt : err \in NewErrors \cup NewOutcomeErrors]_vars

\* the handler of a file argument of check has failed to compute the
\* absolute path and the run has gone on without an entry or an outcome
C11_Witness ==
    /\ cmd = "check"
    /\ cwdGone
    /\ pc = "done"
    /\ args = << RelFile >>
    /\ Errors = <<>>
    /\ stdout # <<>>
    /\ StatusLines(stdout) = <<>>

----------------------------------------------------------------------------
(* C12: when a termination signal arrives at any point of a run, the        *)
(* handler prints the outcomes and the errors accumulated so far, leaves    *)
(* them as they are, and the process ends with status 1.                    *)

\* the signal has arrived
Signalled == sigpc # "blocked"

\* the step is one of the handler
HandlerStep == sigpc' # sigpc \/ writing'.sig # writing.sig

\* the step is a read of a list by the handler
HandlerReads(at) == sigpc = at /\ sigpc' # sigpc

\* what the handler takes from a read is the list as it is accumulated: the
\* list that is there, or the one the step the main goroutine is in makes it
ReadsAccumulated ==
    /\ HandlerReads("resultsChecking") =>
           writing'.sig \in {resultsCheckingLines(resultsCheckingChecksumFiles),
                             resultsCheckingLines(NextResults)}
    /\ HandlerReads("errorsChecking") =>
           \/ sigpc' = "errorsCheckingRange" /\ Len(NextErrors) > 0
           \/ sigpc' = "resultsCreating" /\ Len(errorsCheckingChecksumFiles) = 0
    /\ HandlerReads("errorsCheckingRange") =>
           writing'.sig \in {errorItems(errorsCheckingChecksumFiles), errorItems(NextErrors)}

\* the handler writes none of the lists
LeavesLists ==
    UNCHANGED <<resultsCheckingChecksumFiles, errorsCheckingChecksumFiles,
                resultsCreatingChecksumFiles, errorsCreatingChecksumFiles>>

\* the process ends by the os.Exit(1) of the handler
EndsByHandler == pc = "exited" /\ sigpc = "exited" /\ exitStatus = 1

\* C12 as stated: what the handler reads is the list accumulated so far, it
\* writes no list, and once the signal has arrived the process only ends by
\* the handler, after its report, with status 1
C12_InterruptFlushesAndExits ==
    [][/\ HandlerStep => (ReadsAccumulated /\ LeavesLists)
       /\ (Signalled' /\ ~Running') => EndsByHandler']_vars

\* what holds: the handler writes no list; a handler that reaches os.Exit
\* has written every line of its report and ends the process with status 1;
\* the process ends otherwise only by the return of main after Run, with
\* status 0
C12_HandlerReadsOnly ==
    [][/\ HandlerStep => LeavesLists
       /\ (pc' = "exited" /\ sigpc' # sigpc) =>
              (EndsByHandler' /\ sigpc = "exit" /\ SigIdle)
       /\ (pc' = "exited" /\ sigpc' = sigpc) => (pc = "done" /\ exitStatus' = 0)]_vars

\* the signal arrived during a run and main.main returned while the handler
\* was inside a print call: lines of its report were never written, and the
\* status is 0
C12_Witness ==
    /\ pc = "exited"
    /\ exitStatus = 0
    /\ sigpc \notin {"blocked", "exited"}
    /\ ~SigIdle
    /\ Results # <<>>

----------------------------------------------------------------------------
(* C13: in a verification run every regular file that is no sidecar and is  *)
(* handed to the handler, by the walk of a root or as a root, gets exactly  *)
(* one outcome, appended to the results of that root in the order of the    *)
(* visits; while the root is processed no outcome is changed or removed.    *)

\* the file the next step of a verification run hands to the handler
CandidateAt ==
    IF pc = "walk" /\ WalkNode(fs, Head(walk)).err = Nil
                   /\ ~WalkNode(fs, Head(walk)).isDir
                   /\ ~IsSidecarPath(Head(walk))
        THEN << Head(walk) >>
    ELSE IF pc = "file" /\ Abs(Head(paths)).err = Nil
        THEN << Abs(Head(paths)).path >>
    ELSE <<>>

\* the paths of the outcomes in the results of the verification run
OutcomePaths(results) == [i \in 1..Len(results) |-> results[i].Path]

C13_OneOutcomePerFile ==
    [][(cmd = "check" /\ pc \in {"walk", "file"} /\ RunStep /\ pc' # "exited") =>
        /\ Len(resultsCheckingChecksumFiles') =
               Len(resultsCheckingChecksumFiles) + Len(CandidateAt)
        /\ SubSeq(resultsCheckingChecksumFiles', 1, Len(resultsCheckingChecksumFiles))
               = resultsCheckingChecksumFiles
        /\ OutcomePaths(resultsCheckingChecksumFiles')
               = OutcomePaths(resultsCheckingChecksumFiles) \o CandidateAt
        /\ \A i, j \in 1..Len(resultsCheckingChecksumFiles') :
               resultsCheckingChecksumFiles'[i].Path = resultsCheckingChecksumFiles'[j].Path
                   => i = j]_vars

\* the walk of /r has appended the outcomes of a, d/b and e, in this order,
\* and has passed over the two sidecars and the directory
C13_Witness ==
    /\ cmd = "check"
    /\ OutcomePaths(resultsCheckingChecksumFiles) = << FileA, FileB, FileE >>
    /\ NodeAt(fs, FileA \o SHA512EXT).kind = "file"

----------------------------------------------------------------------------
(* C14: the results are emptied at the start of the processing of each      *)
(* top-level argument, so that while a run works on an argument the results *)
(* hold only outcomes of files of that argument.                            *)

\* the run works on its next top-level path
WorkingOnArgument == pc \in {"walk", "file"}

\* every outcome in the results is one of a file at or under the top-level
\* path the run works on
ResultsOfArgument ==
    \A i \in 1..Len(Results) : Under(Results[i].Path, Abs(Head(paths)).path)

\* a step that starts the processing of a top-level path: in a verification
\* run the step after os.Stat has found the argument (an argument it does not
\* find leaves its entry in the error list and is not processed), in a
\* creation run the step at the head of the loop over the paths
StartsArgument ==
    /\ paths # <<>>
    /\ \/ cmd = "check" /\ pc = "args" /\ Stat(fs, Head(paths)).err = Nil
       \/ cmd = "create" /\ pc = "loop"
    /\ RunStep

----------------------------------------------------------------------------
(* C15: a failure of the walk at a node is recorded in the error list and   *)
(* aborts the subtree of that node only: the files of the same root that    *)
(* are not under a failing node are still visited and classified.           *)

\* a node at which the walk fails: lstat fails, or the directory cannot be read
FailingNode(q) ==
    q \in DOMAIN fs /\ (fs[q].mode = "staterr" \/ (fs[q].kind = "dir" /\ fs[q].mode = "locked"))

\* the regular files that are no sidecars under a root and under no failing node
FilesBesideFailures(root) ==
    SelectSeq(FilesUnder(fs, root),
              LAMBDA f : \A q \in DOMAIN fs : (FailingNode(q) /\ Under(q, root)) => ~Under(f, q))

\* the error the walk hands to its function at a failing node
WalkErrorAt(q) == WalkNode(fs, q).err

\* C15 as stated: after a run that went through all its top-level paths,
\* every failing node under a walked root has its error in the error list
\* and every file of the root that is under no failing node was classified
C15_WalkFailureAbortsSubtreeOnly ==
    (pc = "done" /\ paths = <<>>) =>
        \A i \in 1..Len(TopPaths) :
            (Usable(TopPaths[i]) /\ Stat(fs, TopPaths[i]).isDir) =>
                /\ \A q \in DOMAIN fs :
                       (FailingNode(q) /\ Under(q, Abs(TopPaths[i]).path))
                           => InErrors(WalkErrorAt(q))
                /\ \A k \in 1..Len(FilesBesideFailures(Abs(TopPaths[i]).path)) :
                       Classified(FilesBesideFailures(Abs(TopPaths[i]).path)[k])

\* what the walk function does with a failure: it returns it, filepath.Walk
\* ends the walk of the root, the failure is appended by the function and
\* again after the walk, and the run goes on with the next top-level path
C15_WalkFailureAbortsRoot ==
    [][(pc = "walk" /\ WalkErrorAt(Head(walk)) # Nil /\ RunStep /\ pc' # "exited") =>
        /\ Errors' = Errors \o << WalkErrorAt(Head(walk)), WalkErrorAt(Head(walk)) >>
        /\ Results' = Results
        /\ walk' = <<>>
        /\ paths' = Tail(paths)
        /\ pc' = (IF cmd = "check" THEN "args" ELSE "processed")]_vars

\* a finished run over /r whose directory d cannot be read: a, visited before
\* d, was classified; e, visited after d, was not
C15_Witness ==
    /\ pc = "done"
    /\ args = << DirR >>
    /\ FailingNode(DirD)
    /\ InErrors(WalkErrorAt(DirD))
    /\ Classified(FileA)
    /\ ~Classified(FileE)
    /\ ~FailingNode(FileE)

----------------------------------------------------------------------------
(* C16: stopping the animation is synchronous: once Stop has returned the   *)
(* goroutine of the animation has ended, so no frame of a file is printed   *)
(* after its status line, and Stop is called exactly once for each call of  *)
(* startProgress.                                                           *)

\* the handler is past spinner.Stop()
StopReturned == pc \in {"report", "startProgress", "done"}

\* the goroutine of the animation can still print
AnimationAlive == spinner.task \in {"select", "print", "tick"}

\* no frame of a file comes after the status line of that file
NoFrameAfterStatus ==
    \A i, j \in 1..Len(stdout) :
        (i < j /\ stdout[i].line = "status" /\ stdout[j].line = "frame")
            => stdout[j].path # stdout[i].path

\* one Stop for each startProgress: none is open outside the handler, one
\* between startProgress and Stop
StopsMatchStarts ==
    /\ pc \in {"report", "startProgress", "done", "Wait"} => spinner.stopped = spinner.started
    /\ pc \in {"checkChecksumFile", "Stop"} => spinner.stopped + 1 = spinner.started

C16_StopIsSynchronous ==
    /\ StopReturned => ~AnimationAlive
    /\ NoFrameAfterStatus
    /\ StopsMatchStarts

\* two files were handled on a terminal: each animation printed frames, was
\* stopped once, and each status line follows the frames of its file
C16_Witness ==
    /\ pc = "done"
    /\ stdoutTTY
    /\ spinner.started = 2
    /\ spinner.stopped = 2
    /\ spinner.task = "exited"
    /\ Len(StatusLines(stdout)) = 2
    /\ \E i, j \in 1..Len(stdout) :
           /\ i < j
           /\ stdout[i].line = "frame" /\ stdout[i].path = stdout[j].path
           /\ stdout[j].line = "status"
           /\ j < Len(stdout)
           /\ stdout[j + 1].line = "frame"

====
